---- MODULE Spec2Model ----
(***************************************************************************)
(* Verification model of the I14Y MCP server's API-client and dispatch     *)
(* layer: the parameter canonicalizer (_buildSearchParams), the error      *)
(* normalizer (_handleError), the operation facade (I14YClient methods on  *)
(* a ky transport with a bounded retry policy), the zod request contracts  *)
(* and the CallTool dispatcher with its response envelope.                 *)
(*                                                                         *)
(* JavaScript values are modelled as tagged records; a text built by a     *)
(* template literal is the sequence of its fragments (so "contains" is     *)
(* membership of a fragment); an optional property is a sequence of length *)
(* 0 (undefined) or 1.                                                     *)
(***************************************************************************)
EXTENDS Integers, Sequences, FiniteSets, TLC

VARIABLES
    tools,       \* the tool registry: name -> {name, schema, handler}
    boot,        \* how many registration functions the entry point has run
    apiBaseUrl,  \* config.apiBaseUrl ("" when the environment sets none)
    client,      \* _i14yClient: "null" or "instance"
    inv,         \* the CallTool invocations in progress, by request slot
    listed,      \* <<>>, or <<the tools of the last ListTools reply>>
    pin,    \* _buildSearchParams: the arguments of the call under test
    pout,   \* _buildSearchParams: <<>> before the call, <<result>> after
    pagain, \* _buildSearchParams called on its own result: <<>> or <<result>>
    nin,    \* _handleError: the failure value passed in
    nout,   \* _handleError: <<>> before the call, <<result>> after
    raised, \* a facade catch block given nin: <<>> before, <<what it throws>> after
    vin,    \* schema.parse: the schema and the arguments of the call under test
    vout,   \* schema.parse: <<>> before the call, <<result>> after
    fin,    \* a facade method called directly: the call under test
    fout,   \* the ky requests the call has issued
    fres,   \* <<>>, or <<[outcome, result]>> once ky has settled and the call ended
    gin,    \* formatPaginationInfo: the arguments of the call under test
    gout    \* formatPaginationInfo: <<>> before the call, <<result>> after

vars ==
    <<tools, boot, apiBaseUrl, client, inv, listed, pin, pout, pagain, nin, nout, raised,
      vin, vout, fin, fout, fres, gin, gout>>
serverVars == <<tools, boot, apiBaseUrl, client, inv, listed>>
paramVars == <<pin, pout, pagain>>
normVars == <<nin, nout, raised>>
validVars == <<vin, vout>>
facadeVars == <<fin, fout, fres>>
pageVars == <<gin, gout>>
pureVars == <<paramVars, normVars, validVars, facadeVars, pageVars>>

(***************************************************************************)
(* JavaScript values that can appear in a raw parameter object.            *)
(***************************************************************************)
JsUndefined == [t |-> "undefined", n |-> 0, s |-> ""]
JsNull == [t |-> "null", n |-> 0, s |-> ""]
JsStr(s) == [t |-> "string", n |-> 0, s |-> s]
\* a number: the integer n when s = "", else a non-integer with decimal text s
JsNum(n) == [t |-> "number", n |-> n, s |-> ""]
JsFrac(floor, text) == [t |-> "number", n |-> floor, s |-> text]
JsBool(b) == [t |-> "boolean", n |-> 0, s |-> IF b THEN "true" ELSE "false"]
\* an array, given by the text Array.prototype.toString joins it to ("" for [])
JsArr(joined) == [t |-> "array", n |-> 0, s |-> joined]

\* String(value)
JsString(v) ==
    CASE v.t = "undefined" -> "undefined"
      [] v.t = "null" -> "null"
      [] v.t = "number" -> IF v.s = "" THEN ToString(v.n) ELSE v.s
      [] OTHER -> v.s

\* a property read `obj.key`, then its truthiness, on a map of strings
HasTruthy(m, k) == k \in DOMAIN m /\ m[k] # ""

\* obj with obj[k] = v assigned
Assign(m, k, v) == [x \in DOMAIN m \cup {k} |-> IF x = k THEN v ELSE m[x]]

(***************************************************************************)
(* Parameter canonicalizer: I14YClient._buildSearchParams                  *)
(***************************************************************************)
\* variant: the filter without its empty-string test
ProvidedKeepsEmpty(v) == v # JsUndefined /\ v # JsNull

\* the filter of the forEach: value !== undefined && value !== null && value !== ''
Provided(v) == v # JsUndefined /\ v # JsNull /\ v # JsStr("")

\* variant: the pagination defaults decided on the raw values (!params.page)
\* instead of on the strings already copied
BuildSearchParamsRawTest(params, defaultPage, defaultPageSize) ==
    LET copied == [k \in {x \in DOMAIN params : Provided(params[x])}
                      |-> JsString(params[k])]
        falsy(k) == k \notin DOMAIN params
                    \/ params[k] \in {JsUndefined, JsNull, JsStr(""), JsNum(0), JsBool(FALSE)}
        paged == IF falsy("page")
                 THEN Assign(copied, "page", ToString(defaultPage))
                 ELSE copied
    IN  IF falsy("pageSize")
        THEN Assign(paged, "pageSize", ToString(defaultPageSize))
        ELSE paged

\* variant: the copy alone, without the pagination defaults
BuildSearchParamsNoDefaults(params, defaultPage, defaultPageSize) ==
    [k \in {x \in DOMAIN params : Provided(params[x])} |-> JsString(params[k])]

BuildSearchParams(params, defaultPage, defaultPageSize) ==
    LET copied == [k \in {x \in DOMAIN params : Provided(params[x])}
                      |-> JsString(params[k])]
        paged == IF ~HasTruthy(copied, "page")
                 THEN Assign(copied, "page", ToString(defaultPage))
                 ELSE copied
    IN  IF ~HasTruthy(paged, "pageSize")
        THEN Assign(paged, "pageSize", ToString(defaultPageSize))
        ELSE paged

(***************************************************************************)
(* Failure values: what a catch block can receive.                         *)
(*   kind      Error | object | string | null | undefined                  *)
(*   id        the object's identity ("fresh" for one made by new Error)   *)
(*   name      error.name                                                  *)
(*   message   <<>> (no property) or <<fragments>>; <<<<>>>> is ""         *)
(*   response  <<>> (no property) or <<status>>, status <<>> or <<n>>      *)
(*   str       the text of a string primitive                              *)
(*   issues    <<>> (no property) or <<sequence of [path, message]>>       *)
(***************************************************************************)
ErrorValue(kind, id, name, message, response) ==
    [kind |-> kind, id |-> id, name |-> name, message |-> message,
     response |-> response, str |-> "", issues |-> <<>>]

\* new Error(message)
NewError(message) == ErrorValue("Error", "fresh", "Error", <<message>>, <<>>)

\* the TypeError of reading a property of null or undefined
TypeErrorValue ==
    ErrorValue("Error", "fresh", "TypeError",
               <<(<<"Cannot read properties of null or undefined">>)>>, <<>>)

JsNullError == [ErrorValue("null", "none", "", <<>>, <<>>) EXCEPT !.str = ""]
JsUndefinedError == ErrorValue("undefined", "none", "", <<>>, <<>>)
JsStringError(s) == [ErrorValue("string", "none", "", <<>>, <<>>) EXCEPT !.str = s]

IsNullish(e) == e.kind \in {"null", "undefined"}

\* truthiness of error.message and of error.response (a property read on a
\* string primitive yields undefined)
MessageTruthy(e) == e.message # <<>> /\ e.message[1] # <<>>
ResponseTruthy(e) == e.response # <<>>

Returned(v) == [threw |-> FALSE, value |-> v]
Thrown(v) == [threw |-> TRUE, value |-> v]

(***************************************************************************)
(* Error normalizer: I14YClient._handleError                               *)
(***************************************************************************)
StatusMessage(status) == <<"API request failed with status ", ToString(status)>>

\* variant: status > 500
IsServerErrorAbove(status) == status > 500

\* status >= 500
IsServerError(status) == status >= 500

\* variant: a status without a branch of its own gets the generic message
UnmappedGeneric(error, message) == Returned(NewError(message))

\* variant: a status without a branch of its own gets a copy of the error
UnmappedCopy(error, message) == Returned([error EXCEPT !.id = "fresh"])

\* a status without a branch of its own falls through to `return error`
Unmapped(error, message) == Returned(error)

\* the `if (error.response)` block and the final `return error`
HandleErrorMapped(error) ==
    IF ~ResponseTruthy(error) THEN Returned(error)
    ELSE IF error.response[1] = <<>> THEN Unmapped(error, <<>>)
    ELSE LET status == error.response[1][1]
             message == StatusMessage(status)
         IN  CASE status = 400 ->
                    Returned(NewError(message \o <<": ", "Bad Request - Invalid parameters">>))
               [] status = 401 -> Returned(NewError(message \o <<": ", "Unauthorized">>))
               [] status = 403 -> Returned(NewError(message \o <<": ", "Forbidden">>))
               [] status = 404 -> Returned(NewError(message \o <<": ", "Resource not found">>))
               [] IsServerError(status) -> Returned(NewError(message \o <<": ", "Server error">>))
               [] OTHER -> Unmapped(error, message)

\* variant: an error that has its own message is wrapped in a new Error
HandleErrorWraps(error) ==
    IF IsNullish(error) THEN Thrown(TypeErrorValue)
    ELSE IF MessageTruthy(error) /\ ~ResponseTruthy(error)
    THEN Returned(NewError(<<"Request failed: ">> \o error.message[1]))
    ELSE HandleErrorMapped(error)

HandleError(error) ==
    IF IsNullish(error) THEN Thrown(TypeErrorValue)
    ELSE IF MessageTruthy(error) /\ ~ResponseTruthy(error) THEN Returned(error)
    ELSE HandleErrorMapped(error)

(***************************************************************************)
(* Request contracts: the zod schemas of the tool modules.  A contract is  *)
(* the sequence of its fields in declaration order.                        *)
(***************************************************************************)
OptionalString(key) ==
    [key |-> key, kind |-> "string", optional |-> TRUE, uuid |-> FALSE,
     values |-> {}, min |-> <<>>, max |-> <<>>, default |-> <<>>]

RequiredString(key, uuid) ==
    [key |-> key, kind |-> "string", optional |-> FALSE, uuid |-> uuid,
     values |-> {}, min |-> <<>>, max |-> <<>>, default |-> <<>>]

OptionalEnum(key, values) ==
    [key |-> key, kind |-> "enum", optional |-> TRUE, uuid |-> FALSE,
     values |-> values, min |-> <<>>, max |-> <<>>, default |-> <<>>]

\* z.number().int().min(min)[.max(max)].default(default)
DefaultedInt(key, min, max, default) ==
    [key |-> key, kind |-> "number", optional |-> FALSE, uuid |-> FALSE,
     values |-> {}, min |-> <<min>>, max |-> max, default |-> <<default>>]

\* variant: a page counted from 0
PageFieldFromZero == DefaultedInt("page", 0, <<>>, 1)

PageField == DefaultedInt("page", 1, <<>>, 1)
\* variant: pageSize without its upper limit
PageSizeFieldNoMax == DefaultedInt("pageSize", 1, <<>>, 25)

PageSizeField == DefaultedInt("pageSize", 1, <<100>>, 25)

PublicationLevels == {"Internal", "Public"}
RegistrationStatuses ==
    {"Incomplete", "Candidate", "Recorded", "Qualified", "Standard",
     "PreferredStandard", "Superseded", "Retired"}

searchConceptsSchema ==
    <<OptionalString("conceptIdentifier"), OptionalString("publisherIdentifier"),
      OptionalString("version"), OptionalEnum("publicationLevel", PublicationLevels),
      OptionalEnum("registrationStatus", RegistrationStatuses),
      PageField, PageSizeField>>

getConceptSchema == <<RequiredString("id", TRUE)>>

getCodeListEntriesSchema == <<RequiredString("id", TRUE), PageField, PageSizeField>>

searchDatasetsSchema ==
    <<OptionalString("accessRights"), OptionalString("datasetIdentifier"),
      OptionalString("publisherIdentifier"), OptionalString("publicationLevel"),
      OptionalString("registrationStatus"), PageField, PageSizeField>>

getDatasetSchema == <<RequiredString("id", FALSE), OptionalString("language")>>

searchDataServicesSchema ==
    <<OptionalString("accessRights"), OptionalString("dataServiceIdentifier"),
      OptionalString("publisherIdentifier"), OptionalString("publicationLevel"),
      OptionalString("registrationStatus"), PageField, PageSizeField>>

getDataServiceSchema == <<RequiredString("id", TRUE)>>

searchPublicServicesSchema ==
    <<OptionalString("publicServiceIdentifier"), OptionalString("publisherIdentifier"),
      OptionalString("publicationLevel"), OptionalString("registrationStatus"),
      PageField, PageSizeField>>

getPublicServiceSchema == <<RequiredString("id", TRUE)>>

\* the schema a registration names
SchemaOf(schemaName) ==
    CASE schemaName = "searchConceptsSchema" -> searchConceptsSchema
      [] schemaName = "getConceptSchema" -> getConceptSchema
      [] schemaName = "getCodeListEntriesSchema" -> getCodeListEntriesSchema
      [] schemaName = "schemas.getCodeListEntriesSchema" -> getCodeListEntriesSchema
      [] schemaName = "searchDatasetsSchema" -> searchDatasetsSchema
      [] schemaName = "getDatasetSchema" -> getDatasetSchema
      [] schemaName = "searchDataServicesSchema" -> searchDataServicesSchema
      [] schemaName = "getDataServiceSchema" -> getDataServiceSchema
      [] schemaName = "searchPublicServicesSchema" -> searchPublicServicesSchema
      [] schemaName = "getPublicServiceSchema" -> getPublicServiceSchema

(***************************************************************************)
(* Request validator: schema.parse(args) of a z.object (unknown keys are   *)
(* stripped, every field is checked and the issues are aggregated).        *)
(***************************************************************************)
\* strings of the model that z.string().uuid() accepts
UuidStrings == {"123e4567-e89b-12d3-a456-426614174000"}

\* input[key]
Prop(obj, key) == IF key \in DOMAIN obj THEN obj[key] ELSE JsUndefined

\* the issues one field's checks raise on value v (v is not undefined)
StringIssues(f, v) ==
    IF v.t # "string" THEN <<"Expected string, received " \o v.t>>
    ELSE IF f.uuid /\ v.s \notin UuidStrings THEN <<"Invalid uuid">>
    ELSE <<>>

EnumIssues(f, v) ==
    IF v.t # "string" \/ v.s \notin f.values THEN <<"Invalid enum value">> ELSE <<>>

NumberIssues(f, v) ==
    IF v.t # "number" THEN <<"Expected number, received " \o v.t>>
    ELSE (IF v.s # "" THEN <<"Expected integer, received float">> ELSE <<>>)
         \o (IF v.n < f.min[1]
             THEN <<"Number must be greater than or equal to " \o ToString(f.min[1])>>
             ELSE <<>>)
         \o (IF f.max # <<>> /\ (v.n > f.max[1] \/ (v.n = f.max[1] /\ v.s # ""))
             THEN <<"Number must be less than or equal to " \o ToString(f.max[1])>>
             ELSE <<>>)

TypeIssues(f, v) ==
    CASE f.kind = "string" -> StringIssues(f, v)
      [] f.kind = "enum" -> EnumIssues(f, v)
      [] f.kind = "number" -> NumberIssues(f, v)

\* one field: the value after ZodOptional / ZodDefault, then its issues
FieldValue(f, v) ==
    IF v = JsUndefined /\ f.default # <<>> THEN JsNum(f.default[1]) ELSE v

FieldIssues(f, v) ==
    LET w == FieldValue(f, v)
    IN  IF w = JsUndefined
        THEN IF f.optional THEN <<>> ELSE <<"Required">>
        ELSE TypeIssues(f, w)

\* every issue of the object, as fragments "<field>", ": ", "<reason>"
RECURSIVE ObjectIssues(_, _, _)
ObjectIssues(schema, obj, i) ==
    IF i > Len(schema) THEN <<>>
    ELSE LET f == schema[i]
             reasons == FieldIssues(f, Prop(obj, f.key))
             RECURSIVE Lines(_)
             Lines(j) == IF j > Len(reasons) THEN <<>>
                         ELSE <<f.key, ": ", reasons[j], "\n">> \o Lines(j + 1)
         IN  Lines(1) \o ObjectIssues(schema, obj, i + 1)

\* variant: a parse that lets the keys the schema does not declare through
ParsedObjectPassthrough(schema, obj) ==
    LET keys == {schema[i].key : i \in 1..Len(schema)}
        field(k) == CHOOSE f \in {schema[i] : i \in 1..Len(schema)} : f.key = k
    IN  [k \in {x \in keys : x \in DOMAIN obj \/ field(x).default # <<>>} \cup DOMAIN obj
            |-> IF k \in keys THEN FieldValue(field(k), Prop(obj, k)) ELSE obj[k]]

\* the parsed object: schema keys only; a key that is absent from the input
\* and has no default stays absent
ParsedObject(schema, obj) ==
    LET keys == {schema[i].key : i \in 1..Len(schema)}
        field(k) == CHOOSE f \in {schema[i] : i \in 1..Len(schema)} : f.key = k
    IN  [k \in {x \in keys : x \in DOMAIN obj \/ field(x).default # <<>>}
            |-> FieldValue(field(k), Prop(obj, k))]

ZodError(issues) == ErrorValue("Error", "fresh", "ZodError", <<issues>>, <<>>)

\* variant: a parse that stops at the first field that has issues
SchemaParseFirstField(schema, args) ==
    IF args = <<>> THEN Thrown(ZodError(<<"", ": ", "Required", "\n">>))
    ELSE LET bad == {i \in 1..Len(schema) :
                        FieldIssues(schema[i], Prop(args[1], schema[i].key)) # <<>>}
             first == CHOOSE i \in bad : \A j \in bad : i <= j
         IN  IF bad # {}
             THEN Thrown(ZodError(ObjectIssues(<<schema[first]>>, args[1], 1)))
             ELSE [threw |-> FALSE, value |-> ParsedObject(schema, args[1])]

\* schema.parse(args): args is <<>> (undefined) or <<object>>
SchemaParse(schema, args) ==
    IF args = <<>> THEN Thrown(ZodError(<<"", ": ", "Required", "\n">>))
    ELSE LET issues == ObjectIssues(schema, args[1], 1)
         IN  IF issues # <<>> THEN Thrown(ZodError(issues))
             ELSE [threw |-> FALSE, value |-> ParsedObject(schema, args[1])]

(***************************************************************************)
(* Transport client: the ky instance made by the I14YClient constructor.   *)
(* One attempt of a request ends in an outcome the upstream decides:       *)
(*   ok        a 2xx response, with the body response.json() will find     *)
(*   http      a non-2xx response (ky raises HTTPError carrying it)        *)
(*   network   the fetch failed without any response                       *)
(*   timeout   no response within the timeout (ky raises TimeoutError)     *)
(***************************************************************************)
RetryLimit == 2
RetryMethods == {"get"}
RetryStatusCodes == {408, 413, 429, 500, 502, 503, 504}

OkOutcome(body) == [kind |-> "ok", status |-> 200, retryAfter |-> FALSE, body |-> body]
HttpOutcome(status, retryAfter) ==
    [kind |-> "http", status |-> status, retryAfter |-> retryAfter, body |-> "none"]
NetworkOutcome == [kind |-> "network", status |-> 0, retryAfter |-> FALSE, body |-> "none"]
TimeoutOutcome == [kind |-> "timeout", status |-> 0, retryAfter |-> FALSE, body |-> "none"]

\* variant: a retry policy that does not look at the status of the response
KyRetriesAnyStatus(method, retryCount, outcome) ==
    /\ method \in RetryMethods
    /\ retryCount < RetryLimit
    /\ outcome.kind \in {"http", "network"}

\* ky's retry decision after a failed attempt, retryCount retries having been
\* made so far: the configured limit, methods and status codes; a failure
\* without a response is retried unless it is the timeout, and a 413 is
\* retried only when the response carries Retry-After
KyShouldRetry(method, retryCount, outcome) ==
    /\ method \in RetryMethods
    /\ retryCount < RetryLimit
    /\ CASE outcome.kind = "http" ->
                /\ outcome.status \in RetryStatusCodes
                /\ (outcome.status = 413 => outcome.retryAfter)
         [] outcome.kind = "network" -> TRUE
         [] OTHER -> FALSE

\* the error ky rejects with
KyError(outcome) ==
    CASE outcome.kind = "http" ->
            ErrorValue("Error", "transport", "HTTPError",
                       <<(<<"Request failed with status code ", ToString(outcome.status)>>)>>,
                       <<(<<outcome.status>>)>>)
      [] outcome.kind = "timeout" ->
            ErrorValue("Error", "transport", "TimeoutError", <<(<<"Request timed out">>)>>, <<>>)
      [] OTHER ->
            ErrorValue("Error", "transport", "TypeError", <<(<<"fetch failed">>)>>, <<>>)

\* response.json(): the decoded body, or the SyntaxError of an undecodable one
JsonObject == [t |-> "object", n |-> 0, s |-> "{items,totalCount}"]
JsonText == JsStr("plain text body")

ResponseJson(outcome) ==
    CASE outcome.body = "object" -> Returned(JsonObject)
      [] outcome.body = "string" -> Returned(JsonText)
      [] OTHER -> Thrown(ErrorValue("Error", "transport", "SyntaxError",
                                    <<(<<"Unexpected token in JSON">>)>>, <<>>))

(***************************************************************************)
(* Operation facade: the I14YClient methods.  A call names the method and  *)
(* its arguments; FacadeRequest is the ky call the method issues, and      *)
(* FacadeSettle what the method returns or throws once ky has settled.     *)
(***************************************************************************)
DefaultPage == 1
DefaultPageSize == 25

FacadeCall(method, id, flag, params) ==
    [method |-> method, id |-> id, flag |-> flag, params |-> params]

NoParams == [k \in {} |-> JsUndefined]

SearchPath(method) ==
    CASE method = "searchConcepts" -> <<"concepts">>
      [] method = "searchDatasets" -> <<"datasets">>
      [] method = "searchDataServices" -> <<"dataservices">>
      [] method = "searchPublicServices" -> <<"publicservices">>

KyGet(path, query) == [method |-> "get", path |-> path, query |-> query]

\* a JavaScript value is truthy
Truthy(v) ==
    CASE v.t \in {"undefined", "null"} -> FALSE
      [] v.t = "string" -> v.s # ""
      [] v.t = "number" -> v.n # 0 \/ v.s # ""
      [] v.t = "boolean" -> v.s = "true"
      [] OTHER -> TRUE

\* variant: the flag is always sent, as "true" or "false"
ConceptQueryFlagText(flag) ==
    <<[includeCodeListEntries |-> IF flag THEN "true" ELSE "false"]>>

\* the options of getConcept: { searchParams: { includeCodeListEntries: 'true' } }
\* when the flag is set, no options argument otherwise
ConceptQuery(flag) == IF flag THEN <<[includeCodeListEntries |-> "true"]>> ELSE <<>>

\* variant: a query object is always passed, empty without a language
LanguageQueryAlways(language) ==
    IF language \in {JsUndefined, JsNull} THEN <<[k \in {} |-> ""]>>
    ELSE <<[k \in {"language"} |-> JsString(language)]>>

\* the options of getDataset and getDatasetStructure:
\* language ? { searchParams: { language } } : no options argument
LanguageQuery(language) ==
    IF Truthy(language) THEN <<[k \in {"language"} |-> JsString(language)]>> ELSE <<>>

FacadeRequest(call) ==
    CASE call.method = "getConcept" ->
            KyGet(<<"concepts/", JsString(call.id)>>, ConceptQuery(call.flag))
      [] call.method = "getCodeListEntries" ->
            KyGet(<<"concepts/", JsString(call.id), "/codelistentries">>,
                  <<BuildSearchParams(call.params, DefaultPage, DefaultPageSize)>>)
      [] call.method = "getDataset" ->
            KyGet(<<"datasets/", JsString(call.id)>>,
                  LanguageQuery(Prop(call.params, "language")))
      [] call.method = "getDatasetStructure" ->
            KyGet(<<"datasets/", JsString(call.id), "/structure">>,
                  LanguageQuery(Prop(call.params, "language")))
      [] call.method = "exportDatasetStructure" ->
            KyGet(<<"datasets/", JsString(call.id), "/structure/export">>,
                  <<IF Truthy(Prop(call.params, "language"))
                    THEN [k \in {"format", "language"} |-> JsString(Prop(call.params, k))]
                    ELSE [k \in {"format"} |-> JsString(Prop(call.params, k))]>>)
      [] call.method = "getDataService" ->
            KyGet(<<"dataservices/", JsString(call.id)>>, <<>>)
      [] call.method = "getPublicService" ->
            KyGet(<<"publicservices/", JsString(call.id)>>, <<>>)
      [] OTHER ->
            KyGet(SearchPath(call.method),
                  <<BuildSearchParams(call.params, DefaultPage, DefaultPageSize)>>)

\* variant: a failure is swallowed and an empty result returned in its place
FacadeSettleSwallows(outcome) ==
    IF outcome.kind = "ok"
    THEN LET body == ResponseJson(outcome)
         IN  IF body.threw THEN Returned(JsNull) ELSE body
    ELSE Returned(JsNull)

\* the try/catch around the ky call: the decoded body is returned, any failure
\* goes through _handleError and is thrown
FacadeSettle(outcome) ==
    IF outcome.kind = "ok"
    THEN LET body == ResponseJson(outcome)
         IN  IF body.threw THEN Thrown(HandleError(body.value).value) ELSE body
    ELSE Thrown(HandleError(KyError(outcome)).value)

\* the same try/catch with `return await response.text()` (exportDatasetStructure):
\* the body is returned as text, whatever it holds
FacadeSettleText(outcome) ==
    IF outcome.kind = "ok" THEN Returned(JsStr(outcome.body))
    ELSE Thrown(HandleError(KyError(outcome)).value)

(***************************************************************************)
(* Response envelope: formatSuccess, formatError and the inline envelopes. *)
(***************************************************************************)
Envelope(text, isError) ==
    [content |-> <<[type |-> "text", text |-> text]>>, isError |-> isError]

\* JSON.stringify(data, null, 2)
JsonStringify2(data) == <<"JSON.stringify(", JsString(data), ", null, 2)">>

\* variant: a string result is serialized like any other value
formatSuccessStringifies(data) == Envelope(JsonStringify2(data), <<>>)

formatSuccess(data) ==
    Envelope(IF data.t = "string" THEN <<data.s>> ELSE JsonStringify2(data), <<>>)

\* `${error.message}` in a template literal
MessageText(error) == IF error.message = <<>> THEN <<"undefined">> ELSE error.message[1]

\* error.message || "Unknown error"
MessageOrUnknown(error) ==
    IF MessageTruthy(error) THEN error.message[1] ELSE <<"Unknown error">>

IssueLines(issues) ==
    LET RECURSIVE Lines(_)
        Lines(j) == IF j > Len(issues) THEN <<>>
                    ELSE (IF j > 1 THEN <<"\n">> ELSE <<>>)
                         \o <<issues[j].path, ": ", issues[j].message>> \o Lines(j + 1)
    IN  Lines(1)

formatErrorMessage(error) ==
    CASE error.kind = "Error" ->
            IF error.name = "ValidationError" /\ error.issues # <<>>
            THEN <<"Validation Error:", "\n">> \o IssueLines(error.issues[1])
            ELSE IF ResponseTruthy(error) /\ error.response[1] # <<>>
                    /\ error.response[1][1] # 0
            THEN <<ToString(error.response[1][1]), ": ">> \o MessageOrUnknown(error)
            ELSE MessageOrUnknown(error)
      [] error.kind = "string" -> <<error.str>>
      [] OTHER -> MessageOrUnknown(error)

formatError(error) ==
    IF IsNullish(error) \/ (error.kind = "string" /\ error.str = "")
    THEN Envelope(<<"Error: ", "Unknown error">>, <<TRUE>>)
    ELSE Envelope(<<"Error: ">> \o formatErrorMessage(error), <<TRUE>>)

(***************************************************************************)
(* Tool handlers.  A handler is described by the schema it parses its      *)
(* arguments with (none for the catalog handler), the facade method it     *)
(* calls, and how it renders success and failure.                          *)
(***************************************************************************)
Handler(schema, method, flag, success, failure, prefix) ==
    [schema |-> schema, method |-> method, flag |-> flag, success |-> success,
     failure |-> failure, prefix |-> prefix]

HandlerOf(handler) ==
    CASE handler = "searchConcepts" ->
            Handler(<<"searchConceptsSchema">>, "searchConcepts", FALSE,
                    "formatSuccess", "prefix", "Error searching concepts: ")
      [] handler = "getConcept" ->
            Handler(<<"getConceptSchema">>, "getConcept", FALSE,
                    "formatSuccess", "prefix", "Error getting concept: ")
      [] handler = "getCodeListEntries" ->
            Handler(<<"getCodeListEntriesSchema">>, "getConcept", TRUE,
                    "formatSuccess", "prefix", "Error getting code list entries: ")
      [] handler = "catalogGetCodeListEntries" ->
            Handler(<<>>, "getCodeListEntries", FALSE,
                    "stringify", "prefix", "Error getting code list entries: ")
      [] handler = "searchDatasets" ->
            Handler(<<"searchDatasetsSchema">>, "searchDatasets", FALSE,
                    "formatSuccess", "formatError", "")
      [] handler = "getDataset" ->
            Handler(<<"getDatasetSchema">>, "getDataset", FALSE,
                    "formatSuccess", "formatError", "")
      [] handler = "searchDataServices" ->
            Handler(<<"searchDataServicesSchema">>, "searchDataServices", FALSE,
                    "formatSuccess", "prefix", "Error: ")
      [] handler = "getDataService" ->
            Handler(<<"getDataServiceSchema">>, "getDataService", FALSE,
                    "formatSuccess", "prefix", "Error: ")
      [] handler = "searchPublicServices" ->
            Handler(<<"searchPublicServicesSchema">>, "searchPublicServices", FALSE,
                    "formatSuccess", "prefix", "Error: ")
      [] handler = "getPublicService" ->
            Handler(<<"getPublicServiceSchema">>, "getPublicService", FALSE,
                    "formatSuccess", "prefix", "Error: ")

\* the handler's own parse of its arguments (the catalog handler has none)
HandlerParse(h, args) ==
    IF h.schema = <<>> THEN Returned(args) ELSE SchemaParse(SchemaOf(h.schema[1]), <<args>>)

\* the facade call the handler makes with its parsed arguments
HandlerCall(h, params) ==
    CASE h.method \in {"getConcept", "getDataService", "getPublicService"} ->
            FacadeCall(h.method, Prop(params, "id"), h.flag, NoParams)
      [] h.method = "getDataset" ->
            FacadeCall(h.method, Prop(params, "id"), FALSE,
                       [k \in {"language"} |-> Prop(params, "language")])
      [] h.method = "getCodeListEntries" ->
            FacadeCall(h.method, Prop(params, "id"), FALSE,
                       [k \in {"page", "pageSize"} |-> Prop(params, k)])
      [] OTHER -> FacadeCall(h.method, JsUndefined, FALSE, params)

\* the handler's return on success
HandlerSuccess(h, data) ==
    IF h.success = "formatSuccess" THEN formatSuccess(data)
    ELSE Envelope(JsonStringify2(data), <<>>)

\* variant: every handler renders its failure with formatError
HandlerCatchFormatError(h, error) == Returned(formatError(error))

\* the handler's catch block: the envelope it returns, or the TypeError that
\* reading error.message of null or undefined raises
HandlerCatch(h, error) ==
    IF h.failure = "formatError" THEN Returned(formatError(error))
    ELSE IF IsNullish(error) THEN Thrown(TypeErrorValue)
    ELSE Returned(Envelope(<<h.prefix>> \o MessageText(error), <<TRUE>>))

\* variant: the catch block's envelope without its isError flag
DispatchCatchNoFlag(name, error) ==
    IF IsNullish(error) THEN Thrown(TypeErrorValue)
    ELSE Returned(Envelope(<<"Error executing ", name, ": ">> \o MessageText(error), <<>>))

\* the dispatcher's catch block: the envelope it returns, or the TypeError that
\* reading error.message of null or undefined raises
DispatchCatch(name, error) ==
    IF IsNullish(error) THEN Thrown(TypeErrorValue)
    ELSE Returned(Envelope(<<"Error executing ", name, ": ">> \o MessageText(error),
                           <<TRUE>>))

\* the dispatcher's try block around the handler: what the request handler
\* returns (an envelope) or throws
DispatchTry(name, handled) ==
    IF handled.threw THEN DispatchCatch(name, handled.value) ELSE handled

(***************************************************************************)
(* Tool registry: server.tool and the registration functions, in the order *)
(* the entry point calls them.                                             *)
(***************************************************************************)
Tool(name, schema, handler) == [name |-> name, schema |-> schema, handler |-> handler]

\* tools.set(name, {name, description, schema, handler})
ServerTool(registry, tool) == Assign(registry, tool.name, tool)

registerCatalogTools ==
    <<Tool("get_code_list_entries", "schemas.getCodeListEntriesSchema",
           "catalogGetCodeListEntries")>>

registerConceptTools ==
    <<Tool("search_concepts", "searchConceptsSchema", "searchConcepts"),
      Tool("get_concept", "getConceptSchema", "getConcept"),
      Tool("get_code_list_entries", "getCodeListEntriesSchema", "getCodeListEntries")>>

\* variant: get_dataset registered with the schema of search_datasets
registerDatasetToolsMismatched ==
    <<Tool("search_datasets", "searchDatasetsSchema", "searchDatasets"),
      Tool("get_dataset", "searchDatasetsSchema", "getDataset")>>

registerDatasetTools ==
    <<Tool("search_datasets", "searchDatasetsSchema", "searchDatasets"),
      Tool("get_dataset", "getDatasetSchema", "getDataset")>>

registerDataServiceTools ==
    <<Tool("search_data_services", "searchDataServicesSchema", "searchDataServices"),
      Tool("get_data_service", "getDataServiceSchema", "getDataService")>>

registerPublicServiceTools ==
    <<Tool("search_public_services", "searchPublicServicesSchema", "searchPublicServices"),
      Tool("get_public_service", "getPublicServiceSchema", "getPublicService")>>

\* variant: the catalog tools registered after the concept tools
RegistrationsCatalogLast ==
    <<registerConceptTools, registerCatalogTools, registerDatasetTools,
      registerDataServiceTools, registerPublicServiceTools>>

Registrations ==
    <<registerCatalogTools, registerConceptTools, registerDatasetTools,
      registerDataServiceTools, registerPublicServiceTools>>

\* one registration function: its server.tool calls in order
RECURSIVE RegisterAll(_, _, _)
RegisterAll(registry, toolCalls, i) ==
    IF i > Len(toolCalls) THEN registry
    ELSE RegisterAll(ServerTool(registry, toolCalls[i]), toolCalls, i + 1)

EmptyRegistry == [k \in {} |-> Tool("", "", "")]

(***************************************************************************)
(* Bounds of the model and the inputs it draws.                            *)
(***************************************************************************)
Slots == {"r1"}

Uuid == "123e4567-e89b-12d3-a456-426614174000"

\* argument objects of a CallTool request: any subset of these keys, each
\* with one of its values
ArgValues ==
    [id |-> {JsStr(Uuid), JsStr("not-a-uuid")},
     page |-> {JsNum(0), JsNum(2)},
     pageSize |-> {JsNum(50), JsNum(101)},
     publisherIdentifier |-> {JsStr("pub"), JsStr(""), JsStr("null")},
     language |-> {JsStr("fr")},
     extra |-> {JsStr("zzz")}]

ArgObjects ==
    UNION {{a \in [S -> UNION {ArgValues[k] : k \in S}] :
                \A k \in S : a[k] \in ArgValues[k]} : S \in SUBSET DOMAIN ArgValues}

\* request.params.arguments: absent, or an object
ArgChoices == {<<>>} \cup {<<a>> : a \in ArgObjects}

ToolNames ==
    {"search_concepts", "get_concept", "get_code_list_entries", "search_datasets",
     "get_dataset", "search_data_services", "get_data_service",
     "search_public_services", "get_public_service"}

RequestNames == ToolNames \cup {"export_concept"}

HttpStatuses == {400, 404, 408, 413, 429, 500, 501, 503}

Outcomes ==
    {OkOutcome(b) : b \in {"object", "string", "invalid"}}
    \cup {HttpOutcome(st, FALSE) : st \in HttpStatuses}
    \cup {HttpOutcome(413, TRUE), NetworkOutcome, TimeoutOutcome}

(***************************************************************************)
(* The server: startup registration, then CallTool requests.               *)
(***************************************************************************)
Idle ==
    [pc |-> "idle", name |-> "", args |-> <<>>, handler |-> "", validated |-> <<>>,
     request |-> <<>>, attempts |-> 0, last |-> <<>>, surfaced |-> <<>>,
     envelopes |-> <<>>, outcome |-> "none", thrown |-> <<>>]

\* variant: a constructor without its base URL guard
GetI14YClientUnguarded(cached, baseUrl) ==
    [threw |-> FALSE, value |-> NewError(<<>>), cached |-> "instance"]

\* variant: an accessor that constructs a client on every access
GetI14YClientAlwaysNew(cached, baseUrl) ==
    IF baseUrl = ""
    THEN [threw |-> TRUE, value |-> NewError(<<"Base URL is required">>), cached |-> cached]
    ELSE [threw |-> FALSE, value |-> NewError(<<>>),
          cached |-> IF cached = "null" THEN "instance" ELSE "another instance"]

\* getI14YClient(): the cached instance, or a new I14YClient(config.apiBaseUrl),
\* whose constructor throws without a base URL
GetI14YClient(cached, baseUrl) ==
    IF cached # "null" THEN [threw |-> FALSE, value |-> NewError(<<>>), cached |-> cached]
    ELSE IF baseUrl = ""
    THEN [threw |-> TRUE, value |-> NewError(<<"Base URL is required">>), cached |-> "null"]
    ELSE [threw |-> FALSE, value |-> NewError(<<>>), cached |-> "instance"]

\* the request handler has returned an envelope or thrown
Finished(rec, outcome, result) ==
    IF result.threw
    THEN [rec EXCEPT !.pc = "rejected", !.outcome = outcome, !.thrown = <<result.value>>]
    ELSE [rec EXCEPT !.pc = "done", !.outcome = outcome,
                     !.envelopes = Append(rec.envelopes, result.value)]

\* the handler, from its call to its first await (or to its return)
HandlerStart(rec, h, args, cached, baseUrl) ==
    LET parsed == HandlerParse(h, args)
        got == GetI14YClient(cached, baseUrl)
    IN  IF parsed.threw
        THEN [inv |-> Finished(rec, "validation_failed",
                               DispatchTry(rec.name, HandlerCatch(h, parsed.value))),
              cached |-> cached]
        ELSE IF got.threw
        THEN [inv |-> Finished(rec, "handler_failed",
                               DispatchTry(rec.name, HandlerCatch(h, got.value))),
              cached |-> got.cached]
        ELSE [inv |-> [rec EXCEPT !.pc = "pending",
                                  !.request = <<FacadeRequest(HandlerCall(h, parsed.value))>>,
                                  !.attempts = 1],
              cached |-> got.cached]

\* variant: the facade request is issued from the raw arguments before the
\* result of the validation is looked at
DispatchValidatesLate(registry, name, args, cached, baseUrl) ==
    LET rec == [Idle EXCEPT !.name = name, !.args = args]
    IN  IF name \notin DOMAIN registry
        THEN [inv |-> Finished(rec, "unknown_tool",
                               Thrown(NewError(<<"Unknown tool: ", name>>))),
              cached |-> cached]
        ELSE LET tool == registry[name]
                 h == HandlerOf(tool.handler)
                 validated == SchemaParse(SchemaOf(tool.schema), args)
                 raw == IF args = <<>> THEN NoParams ELSE args[1]
                 sent == [rec EXCEPT !.request = <<FacadeRequest(HandlerCall(h, raw))>>,
                                     !.attempts = 1]
             IN  IF validated.threw
                 THEN [inv |-> Finished(sent, "validation_failed",
                                        DispatchCatch(name, validated.value)),
                       cached |-> cached]
                 ELSE HandlerStart([rec EXCEPT !.handler = tool.handler,
                                               !.validated = <<validated.value>>],
                                   h, validated.value, cached, baseUrl)

\* variant: an unknown name is answered like a handler failure, after a parse
\* of the arguments and a look-up of the client
DispatchUnknownHandled(registry, name, args, cached, baseUrl) ==
    LET rec == [Idle EXCEPT !.name = name, !.args = args]
    IN  IF name \notin DOMAIN registry
        THEN [inv |-> Finished([rec EXCEPT !.validated = args], "unknown_tool",
                               DispatchCatch(name, NewError(<<"Unknown tool: ", name>>))),
              cached |-> GetI14YClient(cached, baseUrl).cached]
        ELSE LET tool == registry[name]
                 validated == SchemaParse(SchemaOf(tool.schema), args)
             IN  IF validated.threw
                 THEN [inv |-> Finished(rec, "validation_failed",
                                        DispatchCatch(name, validated.value)),
                       cached |-> cached]
                 ELSE HandlerStart([rec EXCEPT !.handler = tool.handler,
                                               !.validated = <<validated.value>>],
                                   HandlerOf(tool.handler), validated.value,
                                   cached, baseUrl)

\* the CallTool request handler, up to its first await
Dispatch(registry, name, args, cached, baseUrl) ==
    LET rec == [Idle EXCEPT !.name = name, !.args = args]
    IN  IF name \notin DOMAIN registry
        THEN [inv |-> Finished(rec, "unknown_tool",
                               Thrown(NewError(<<"Unknown tool: ", name>>))),
              cached |-> cached]
        ELSE LET tool == registry[name]
                 validated == SchemaParse(SchemaOf(tool.schema), args)
             IN  IF validated.threw
                 THEN [inv |-> Finished(rec, "validation_failed",
                                        DispatchCatch(name, validated.value)),
                       cached |-> cached]
                 ELSE HandlerStart([rec EXCEPT !.handler = tool.handler,
                                               !.validated = <<validated.value>>],
                                   HandlerOf(tool.handler), validated.value,
                                   cached, baseUrl)

\* variant: a handler that calls its facade method once more after a failure
SettleCallsAgain(rec, outcome) ==
    LET h == HandlerOf(rec.handler)
        settled == FacadeSettle(outcome)
        seen == [rec EXCEPT !.last = <<outcome>>,
                            !.surfaced = Append(rec.surfaced, settled)]
    IN  IF settled.threw /\ rec.surfaced = <<>>
        THEN [seen EXCEPT !.attempts = 1]
        ELSE IF settled.threw
        THEN Finished(seen, "handler_failed",
                      DispatchTry(rec.name, HandlerCatch(h, settled.value)))
        ELSE Finished(seen, "success",
                      DispatchTry(rec.name, Returned(HandlerSuccess(h, settled.value))))

\* ky has settled the request: the facade method returns or throws, the handler
\* builds its envelope and the dispatcher returns it
Settle(rec, outcome) ==
    LET h == HandlerOf(rec.handler)
        settled == FacadeSettle(outcome)
        seen == [rec EXCEPT !.last = <<outcome>>,
                            !.surfaced = Append(rec.surfaced, settled)]
    IN  IF settled.threw
        THEN Finished(seen, "handler_failed",
                      DispatchTry(rec.name, HandlerCatch(h, settled.value)))
        ELSE Finished(seen, "success",
                      DispatchTry(rec.name, Returned(HandlerSuccess(h, settled.value))))

\* variant: every failed attempt is reported to the caller, also a retried one
AttemptEndsSurfacing(rec, outcome) ==
    IF KyShouldRetry(rec.request[1].method, rec.attempts - 1, outcome)
    THEN [rec EXCEPT !.attempts = rec.attempts + 1, !.last = <<outcome>>,
                     !.surfaced = Append(rec.surfaced, Thrown(KyError(outcome)))]
    ELSE Settle(rec, outcome)

\* one attempt of the pending request ends: ky retries it or settles
AttemptEnds(rec, outcome) ==
    IF KyShouldRetry(rec.request[1].method, rec.attempts - 1, outcome)
    THEN [rec EXCEPT !.attempts = rec.attempts + 1, !.last = <<outcome>>]
    ELSE Settle(rec, outcome)

Init ==
    /\ tools = EmptyRegistry
    /\ boot = 0
    /\ apiBaseUrl \in {"", "https://www.i14y.admin.ch/api"}
    /\ client = "null"
    /\ inv = [s \in Slots |-> Idle]
    /\ listed = <<>>
    /\ pin = <<>> /\ pout = <<>> /\ pagain = <<>>
    /\ nin = <<>> /\ nout = <<>> /\ raised = <<>>
    /\ vin = <<>> /\ vout = <<>>
    /\ fin = <<>> /\ fout = <<>> /\ fres = <<>>
    /\ gin = <<>> /\ gout = <<>>

\* the entry point runs its next register*Tools(server)
RegisterTools ==
    /\ boot < Len(Registrations)
    /\ boot' = boot + 1
    /\ tools' = RegisterAll(tools, Registrations[boot + 1], 1)
    /\ UNCHANGED <<apiBaseUrl, client, inv, listed, pureVars>>

\* variant: a ListTools handler that hands its entries over and empties the map
ListToolsDraining ==
    /\ boot = Len(Registrations)
    /\ listed' = <<{[name |-> tools[k].name, inputSchema |-> tools[k].schema] :
                        k \in DOMAIN tools}>>
    /\ tools' = EmptyRegistry
    /\ UNCHANGED <<boot, apiBaseUrl, client, inv, pureVars>>

\* a ListTools request: one {name, description, inputSchema} per registry value
ListTools ==
    /\ boot = Len(Registrations)
    /\ listed' = <<{[name |-> tools[k].name, inputSchema |-> tools[k].schema] :
                        k \in DOMAIN tools}>>
    /\ UNCHANGED <<tools, boot, apiBaseUrl, client, inv, pureVars>>

\* a CallTool request arrives
CallTool(s) ==
    /\ boot = Len(Registrations)
    /\ inv[s].pc = "idle"
    /\ \E name \in RequestNames, args \in ArgChoices :
          LET d == Dispatch(tools, name, args, client, apiBaseUrl)
          IN  /\ inv' = [inv EXCEPT ![s] = d.inv]
              /\ client' = d.cached
    /\ UNCHANGED <<tools, boot, apiBaseUrl, listed, pureVars>>

\* variant: one upstream answer settles every pending request equal to the
\* one it was made for
RespondCoalesced(s) ==
    /\ inv[s].pc = "pending"
    /\ \E outcome \in Outcomes :
          inv' = [t \in DOMAIN inv |->
                     IF inv[t].pc = "pending" /\ inv[t].request = inv[s].request
                     THEN AttemptEnds(inv[t], outcome) ELSE inv[t]]
    /\ UNCHANGED <<tools, boot, apiBaseUrl, client, listed, pureVars>>

\* the upstream answers (or fails, or times out) the attempt in flight
Respond(s) ==
    /\ inv[s].pc = "pending"
    /\ \E outcome \in Outcomes : inv' = [inv EXCEPT ![s] = AttemptEnds(inv[s], outcome)]
    /\ UNCHANGED <<tools, boot, apiBaseUrl, client, listed, pureVars>>

\* the protocol layer has sent the result; the slot takes the next request
Collect(s) ==
    /\ inv[s].pc \in {"done", "rejected"}
    /\ inv' = [inv EXCEPT ![s] = Idle]
    /\ UNCHANGED <<tools, boot, apiBaseUrl, client, listed, pureVars>>

Next ==
    \/ RegisterTools
    \/ ListTools
    \/ \E s \in Slots : CallTool(s)
    \/ \E s \in Slots : Respond(s)
    \/ \E s \in Slots : Collect(s)

Spec == Init /\ [][Next]_vars

\* every attempt ends: the upstream answers or the 30 s timeout fires
FairSpec == Spec /\ WF_vars(\E s \in Slots : Respond(s))

(***************************************************************************)
(* Two requests in progress at once: the request handler is async, so a     *)
(* second CallTool request can be dispatched while the first awaits its     *)
(* transport call.  The server has finished its registration.               *)
(***************************************************************************)
InitPair ==
    /\ tools = RegisterAll(RegisterAll(RegisterAll(RegisterAll(RegisterAll(
                    EmptyRegistry, Registrations[1], 1), Registrations[2], 1),
                    Registrations[3], 1), Registrations[4], 1), Registrations[5], 1)
    /\ boot = Len(Registrations)
    /\ apiBaseUrl \in {"", "https://www.i14y.admin.ch/api"}
    /\ client = "null"
    /\ inv = [s \in {"r1", "r2"} |-> Idle]
    /\ listed = <<>>
    /\ pin = <<>> /\ pout = <<>> /\ pagain = <<>>
    /\ nin = <<>> /\ nout = <<>> /\ raised = <<>>
    /\ vin = <<>> /\ vout = <<>>
    /\ fin = <<>> /\ fout = <<>> /\ fres = <<>>
    /\ gin = <<>> /\ gout = <<>>

\* a CallTool request arrives, for one of two operations with one of three
\* argument objects
PairCallTool(s) ==
    /\ inv[s].pc = "idle"
    /\ \E name \in {"search_concepts", "get_concept"},
          args \in {<<[page |-> JsNum(2)]>>, <<[page |-> JsNum(0)]>>,
                    <<[id |-> JsStr(Uuid)]>>} :
          LET d == Dispatch(tools, name, args, client, apiBaseUrl)
          IN  /\ inv' = [inv EXCEPT ![s] = d.inv]
              /\ client' = d.cached
    /\ UNCHANGED <<tools, boot, apiBaseUrl, listed, pureVars>>

NextPair ==
    \/ \E s \in DOMAIN inv : PairCallTool(s)
    \/ \E s \in DOMAIN inv : Respond(s)
    \/ \E s \in DOMAIN inv : Collect(s)

SpecPair == InitPair /\ [][NextPair]_vars

(***************************************************************************)
(* The canonicalizer on its own: _buildSearchParams called directly, as    *)
(* the unit tests do, with any raw parameter object.                       *)
(***************************************************************************)
ParamKeys == {"page", "pageSize", "version"}

ParamValues ==
    {JsUndefined, JsNull, JsStr(""), JsStr("abc"), JsStr("0"), JsNum(0), JsNum(2),
     JsBool(FALSE), JsArr(""), JsArr("a,b")}

ParamMaps == UNION {[S -> ParamValues] : S \in SUBSET ParamKeys}

ServerAtRest ==
    /\ tools = EmptyRegistry
    /\ boot = 0
    /\ apiBaseUrl = ""
    /\ client = "null"
    /\ inv = [s \in Slots |-> Idle]
    /\ listed = <<>>

InitParams ==
    /\ ServerAtRest
    /\ pin \in [params : ParamMaps, defaultPage : {DefaultPage, 3},
                defaultPageSize : {DefaultPageSize, 10}]
    /\ pout = <<>> /\ pagain = <<>>
    /\ nin = <<>> /\ nout = <<>> /\ raised = <<>>
    /\ vin = <<>> /\ vout = <<>>
    /\ fin = <<>> /\ fout = <<>> /\ fres = <<>>
    /\ gin = <<>> /\ gout = <<>>

BuildStep ==
    /\ pout = <<>>
    /\ pout' = <<BuildSearchParams(pin.params, pin.defaultPage, pin.defaultPageSize)>>
    /\ UNCHANGED <<serverVars, pageVars, normVars, validVars, facadeVars, pin, pagain>>

\* the canonical query, a map of strings, passed as a raw parameter object
AsParams(query) == [k \in DOMAIN query |-> JsStr(query[k])]

\* _buildSearchParams called again on the query it has returned
RebuildStep ==
    /\ pout # <<>> /\ pagain = <<>>
    /\ pagain' = <<BuildSearchParams(AsParams(pout[1]), pin.defaultPage,
                                      pin.defaultPageSize)>>
    /\ UNCHANGED <<serverVars, pageVars, normVars, validVars, facadeVars, pin, pout>>

NextParams == BuildStep \/ RebuildStep

SpecParams == InitParams /\ [][NextParams]_vars

(***************************************************************************)
(* The normalizer on its own: _handleError called directly, and the catch  *)
(* block of a facade method (throw this._handleError(error)), with any     *)
(* failure value.                                                          *)
(***************************************************************************)
ErrorStatuses ==
    {302, 400, 401, 402, 403, 404, 408, 409, 413, 418, 429, 499,
     500, 501, 502, 503, 504, 599}

ErrorMessages == {<<>>, <<(<<>>)>>, <<(<<"Too Many Requests">>)>>}

ErrorResponses == {<<>>, <<(<<>>)>>} \cup {<<(<<st>>)>> : st \in ErrorStatuses}

ErrorValues ==
    {ErrorValue(kind, "e1", IF kind = "Error" THEN "Error" ELSE "", m, r) :
        kind \in {"Error", "object"}, m \in ErrorMessages, r \in ErrorResponses}
    \cup {JsNullError, JsUndefinedError, JsStringError(""), JsStringError("boom")}

InitNormalize ==
    /\ ServerAtRest
    /\ pin = <<>> /\ pout = <<>> /\ pagain = <<>>
    /\ nin \in ErrorValues
    /\ nout = <<>>
    /\ raised = <<>>
    /\ vin = <<>> /\ vout = <<>>
    /\ fin = <<>> /\ fout = <<>> /\ fres = <<>>
    /\ gin = <<>> /\ gout = <<>>

NormalizeStep ==
    /\ nout = <<>>
    /\ nout' = <<HandleError(nin)>>
    /\ UNCHANGED <<serverVars, pageVars, paramVars, validVars, facadeVars, nin, raised>>

\* catch (error) { ...; throw this._handleError(error); }
FacadeCatchStep ==
    /\ raised = <<>>
    /\ raised' = <<HandleError(nin).value>>
    /\ UNCHANGED <<serverVars, pageVars, paramVars, validVars, facadeVars, nin, nout>>

NextNormalize == NormalizeStep \/ FacadeCatchStep

SpecNormalize == InitNormalize /\ [][NextNormalize]_vars

(***************************************************************************)
(* The validator on its own: <schema>.parse(args) called directly with an  *)
(* argument object.                                                        *)
(***************************************************************************)
SchemaNames ==
    {"searchConceptsSchema", "getConceptSchema", "getCodeListEntriesSchema",
     "schemas.getCodeListEntriesSchema", "searchDatasetsSchema", "getDatasetSchema",
     "searchDataServicesSchema", "getDataServiceSchema", "searchPublicServicesSchema",
     "getPublicServiceSchema"}

ValidatorValues ==
    [id |-> {JsStr(Uuid), JsStr("not-a-uuid")},
     page |-> {JsUndefined, JsNull, JsNum(-1), JsNum(0), JsNum(1), JsNum(7),
               JsFrac(1, "1.5"), JsStr("2")},
     pageSize |-> {JsUndefined, JsNum(0), JsNum(1), JsNum(100), JsNum(101),
                   JsFrac(25, "25.5"), JsFrac(100, "100.5"), JsStr("25")},
     extra |-> {JsStr("zzz")}]

ValidatorObjects ==
    UNION {{a \in [S -> UNION {ValidatorValues[k] : k \in S}] :
                \A k \in S : a[k] \in ValidatorValues[k]} :
           S \in SUBSET DOMAIN ValidatorValues}

InitValidate ==
    /\ ServerAtRest
    /\ pin = <<>> /\ pout = <<>> /\ pagain = <<>>
    /\ nin = <<>> /\ nout = <<>> /\ raised = <<>>
    /\ vin \in [schema : SchemaNames, args : ValidatorObjects]
    /\ vout = <<>>
    /\ fin = <<>> /\ fout = <<>> /\ fres = <<>>
    /\ gin = <<>> /\ gout = <<>>

ValidateStep ==
    /\ vout = <<>>
    /\ vout' = <<SchemaParse(SchemaOf(vin.schema), <<vin.args>>)>>
    /\ UNCHANGED <<serverVars, pageVars, paramVars, normVars, facadeVars, vin>>

NextValidate == ValidateStep

SpecValidate == InitValidate /\ [][NextValidate]_vars

(***************************************************************************)
(* The facade on its own: an I14YClient method called directly, as the     *)
(* unit tests do on a mocked ky instance.                                  *)
(***************************************************************************)
SearchParamMaps ==
    UNION {[S -> {JsUndefined, JsStr(""), JsStr("pub"), JsNum(2)}] :
           S \in SUBSET {"page", "pageSize", "publisherIdentifier"}}

FacadeCalls ==
    LET FacadeIds == {JsStr(Uuid), JsStr("123")}
        FacadeLanguages == {JsUndefined, JsStr(""), JsStr("fr")}
    IN
        {FacadeCall("getConcept", id, flag, NoParams) : id \in FacadeIds, flag \in BOOLEAN}
        \cup {FacadeCall(m, id, FALSE, NoParams) :
                m \in {"getDataService", "getPublicService"}, id \in FacadeIds}
        \cup {FacadeCall(m, id, FALSE, [k \in {"language"} |-> l]) :
                m \in {"getDataset", "getDatasetStructure"}, id \in FacadeIds,
                l \in FacadeLanguages}
        \cup {FacadeCall("exportDatasetStructure", id, FALSE,
                         [k \in {"format", "language"} |->
                             IF k = "format" THEN JsStr("Ttl") ELSE l]) :
                id \in FacadeIds, l \in FacadeLanguages}
        \cup {FacadeCall("getCodeListEntries", id, FALSE, p) :
                id \in FacadeIds, p \in SearchParamMaps}
        \cup {FacadeCall(m, JsUndefined, FALSE, p) :
                m \in {"searchConcepts", "searchDatasets", "searchDataServices",
                       "searchPublicServices"},
                p \in SearchParamMaps}

InitFacade ==
    /\ ServerAtRest
    /\ pin = <<>> /\ pout = <<>> /\ pagain = <<>>
    /\ nin = <<>> /\ nout = <<>> /\ raised = <<>>
    /\ vin = <<>> /\ vout = <<>>
    /\ fin \in FacadeCalls
    /\ fout = <<>> /\ fres = <<>>
    /\ gin = <<>> /\ gout = <<>>

\* the method builds its request and calls this.client.get
FacadeIssueStep ==
    /\ fout = <<>>
    /\ fout' = Append(fout, FacadeRequest(fin))
    /\ UNCHANGED <<serverVars, pageVars, paramVars, normVars, validVars, fin, fres>>

\* ky settles the request with its final outcome and the method returns or throws
FacadeSettleStep ==
    /\ fout # <<>> /\ fres = <<>>
    /\ \E outcome \in Outcomes :
          fres' = <<[outcome |-> outcome,
                     result |-> IF fin.method = "exportDatasetStructure"
                                THEN FacadeSettleText(outcome)
                                ELSE FacadeSettle(outcome)]>>
    /\ UNCHANGED <<serverVars, pageVars, paramVars, normVars, validVars, fin, fout>>

NextFacade == FacadeIssueStep \/ FacadeSettleStep

SpecFacade == InitFacade /\ [][NextFacade]_vars

(***************************************************************************)
(* The pagination-metadata formatter called directly.  A JavaScript number *)
(* is finite, Infinity or NaN: a division by zero gives one of the latter. *)
(***************************************************************************)
MaxPage == 4
MaxPageSize == 4
MaxTotalItems == 9

Finite(n) == [kind |-> "finite", n |-> n]
Infinity == [kind |-> "Infinity", n |-> 0]
NaN == [kind |-> "NaN", n |-> 0]

\* variant: the quotient rounded down
MathFloorDiv(a, b) ==
    IF b = 0 THEN (IF a = 0 THEN NaN ELSE Infinity)
    ELSE Finite(a \div b)

\* Math.ceil(a / b) for a >= 0 and b >= 0
MathCeilDiv(a, b) ==
    IF b = 0 THEN (IF a = 0 THEN NaN ELSE Infinity)
    ELSE Finite((a + b - 1) \div b)

\* page < x - 1 for an integer page
LessThanPredecessor(page, x) ==
    CASE x.kind = "NaN" -> FALSE
      [] x.kind = "Infinity" -> TRUE
      [] OTHER -> page < x.n - 1

formatPaginationInfo(page, pageSize, totalItems) ==
    LET totalPages == MathCeilDiv(totalItems, pageSize)
    IN  [page |-> page, pageSize |-> pageSize, totalItems |-> totalItems,
         totalPages |-> totalPages,
         hasNextPage |-> LessThanPredecessor(page, totalPages),
         hasPreviousPage |-> page > 0]

InitPagination ==
    /\ ServerAtRest
    /\ pin = <<>> /\ pout = <<>> /\ pagain = <<>>
    /\ nin = <<>> /\ nout = <<>> /\ raised = <<>>
    /\ vin = <<>> /\ vout = <<>>
    /\ fin = <<>> /\ fout = <<>> /\ fres = <<>>
    /\ gin \in [page : 0..MaxPage, pageSize : 0..MaxPageSize, totalItems : 0..MaxTotalItems]
    /\ gout = <<>>

PaginateStep ==
    /\ gout = <<>>
    /\ gout' = <<formatPaginationInfo(gin.page, gin.pageSize, gin.totalItems)>>
    /\ UNCHANGED <<serverVars, paramVars, normVars, validVars, facadeVars, gin>>

NextPagination == PaginateStep

SpecPagination == InitPagination /\ [][NextPagination]_vars

(***************************************************************************)
(* Vocabulary of the properties.                                           *)
(***************************************************************************)
Contains(text, fragment) == \E i \in 1..Len(text) : text[i] = fragment

HasStatus(e) == ~IsNullish(e) /\ e.response # <<>> /\ e.response[1] # <<>>
StatusOf(e) == e.response[1][1]

\* the invocation got a 2xx response with a decodable body
Succeeded(r) == r.last # <<>> /\ r.last[1].kind = "ok" /\ r.last[1].body # "invalid"

\* the step retries the request of slot s
Retried(s) == inv[s].pc = "pending" /\ inv'[s].attempts = inv[s].attempts + 1

\* arguments that break the contract of the named operation
PagingTools ==
    {"search_concepts", "search_datasets", "search_data_services",
     "search_public_services", "get_code_list_entries"}

UuidTools ==
    {"get_concept", "get_code_list_entries", "get_data_service", "get_public_service"}

BadInteger(a, k, lo, hi) ==
    /\ k \in DOMAIN a
    /\ a[k] # JsUndefined
    /\ ~(a[k].t = "number" /\ a[k].s = "" /\ a[k].n >= lo /\ a[k].n <= hi)

ViolatesContract(name, args) ==
    \/ args = <<>>
    \/ /\ name \in PagingTools
       /\ \/ BadInteger(args[1], "page", 1, 1000000)
          \/ BadInteger(args[1], "pageSize", 1, 100)
    \/ /\ name \in UuidTools
       /\ ("id" \notin DOMAIN args[1] \/ args[1]["id"] # JsStr(Uuid))
    \/ /\ name = "get_dataset"
       /\ ("id" \notin DOMAIN args[1] \/ args[1]["id"].t # "string")

\* the suffix the status table gives
TableSuffix(status) ==
    CASE status = 400 -> "Bad Request - Invalid parameters"
      [] status = 401 -> "Unauthorized"
      [] status = 403 -> "Forbidden"
      [] status = 404 -> "Resource not found"
      [] OTHER -> "Server error"

\* a status with no row of its own in the table
IsOtherStatus(e) ==
    HasStatus(e) /\ StatusOf(e) \notin {400, 401, 403, 404} /\ StatusOf(e) < 500

\* a failure with a non-empty message that carries no upstream status
HasOwnMessage(e) ==
    /\ ~IsNullish(e) /\ e.kind # "string"
    /\ e.message # <<>> /\ e.message[1] # <<>>
    /\ ~HasStatus(e)

Supplied(P, k) == k \in DOMAIN P /\ P[k] \notin {JsUndefined, JsNull, JsStr("")}

ExpectedPaging(P, k, default) ==
    IF Supplied(P, k) THEN JsString(P[k]) ELSE ToString(default)

ExpectedPagingNonEmpty(P, k, default) ==
    IF Supplied(P, k) /\ JsString(P[k]) # "" THEN JsString(P[k]) ELSE ToString(default)

DroppedKeys(P) == {k \in DOMAIN P : P[k] \in {JsUndefined, JsNull, JsStr("")}}

\* the text of the envelope an invocation ended with
TextOf(r) == r.envelopes[1].content[1].text

\* the fields of the arguments that break the contract of the named operation
OffendingFields(name, a) ==
    (IF name \in PagingTools /\ BadInteger(a, "page", 1, 1000000) THEN {"page"} ELSE {})
    \cup (IF name \in PagingTools /\ BadInteger(a, "pageSize", 1, 100)
          THEN {"pageSize"} ELSE {})
    \cup (IF name \in UuidTools /\ ("id" \notin DOMAIN a \/ a["id"] # JsStr(Uuid))
          THEN {"id"} ELSE {})
    \cup (IF name = "get_dataset" /\ ("id" \notin DOMAIN a \/ a["id"].t # "string")
          THEN {"id"} ELSE {})

(***************************************************************************)
(* Properties of the dispatcher and the transport (Spec, FairSpec).        *)
(***************************************************************************)

\* C1: every dispatch of a registered name ends in exactly one envelope whose
\* content[0].type is "text" and whose isError is true exactly when the outcome
\* was not a success (a 2xx response with a decodable body); the request handler
\* never throws for a registered name and never returns a second envelope.
C1_OneEnvelope ==
    \A s \in Slots :
        LET r == inv[s]
        IN  /\ Len(r.envelopes) <= 1
            /\ (r.name \in ToolNames => r.pc # "rejected")
            /\ (r.pc \in {"idle", "pending", "rejected"} => r.envelopes = <<>>)
            /\ (r.pc = "done"
                  => /\ Len(r.envelopes) = 1
                     /\ Len(r.envelopes[1].content) = 1
                     /\ r.envelopes[1].content[1].type = "text"
                     /\ (r.envelopes[1].isError = <<TRUE>> <=> ~Succeeded(r))
                     /\ (r.envelopes[1].isError = <<>> <=> Succeeded(r)))

C1_Witness ==
    \E s \in Slots :
        /\ inv[s].pc = "done" /\ inv[s].name = "search_datasets"
        /\ inv[s].attempts = 3 /\ inv[s].last[1].kind = "http"
        /\ inv[s].envelopes[1].isError = <<TRUE>>

\* C2 as stated: one transport call makes at most 3 attempts, and an attempt
\* k+1 is made only if the method is GET and attempt k ended with a status in
\* {408, 413, 429, 500, 502, 503, 504}.
C2_RetryOnlyOnStatus ==
    [][\A s \in Slots :
          /\ inv'[s].attempts <= 3
          /\ Retried(s)
               => /\ inv[s].request[1].method = "get"
                  /\ inv'[s].last[1].kind = "http"
                  /\ inv'[s].last[1].status \in {408, 413, 429, 500, 502, 503, 504}]_vars

\* C2 amended: one transport call makes at most 3 attempts, and an attempt k+1
\* is made only if the method is GET and attempt k either ended with a status
\* in {408, 413, 429, 500, 502, 503, 504} or failed without any response (a
\* network failure, not the timeout); a response with any other status is never
\* followed by a retry.
C2_RetryOnlyOnStatusOrNetwork ==
    [][\A s \in Slots :
          /\ inv'[s].attempts <= 3
          /\ Retried(s)
               => /\ inv[s].request[1].method = "get"
                  /\ \/ /\ inv'[s].last[1].kind = "http"
                        /\ inv'[s].last[1].status \in {408, 413, 429, 500, 502, 503, 504}
                     \/ inv'[s].last[1].kind = "network"]_vars

C2_Witness ==
    \E s \in Slots :
        /\ inv[s].pc = "pending" /\ inv[s].attempts = 3
        /\ inv[s].last[1].kind = "http" /\ inv[s].last[1].status = 429

\* C3: every transport call completes, and its caller observes exactly one
\* outcome for it, the decoded body or one final failure, however many attempts
\* were made; a retried attempt's failure is not observed.
C3_OneOutcome ==
    /\ [](\A s \in Slots :
            /\ Len(inv[s].surfaced) <= 1
            /\ (inv[s].pc = "pending" => inv[s].surfaced = <<>>)
            /\ (inv[s].pc = "done" /\ inv[s].request # <<>>
                  => /\ Len(inv[s].surfaced) = 1
                     /\ (~inv[s].surfaced[1].threw <=> Succeeded(inv[s]))))
    /\ \A s \in Slots : (inv[s].pc = "pending") ~> (inv[s].pc = "done")

C3_Witness ==
    \E s \in Slots :
        /\ inv[s].pc = "done" /\ inv[s].attempts = 3
        /\ Len(inv[s].surfaced) = 1 /\ ~inv[s].surfaced[1].threw

\* C4: when the arguments fail the operation's contract, no transport call is
\* issued for the invocation: it ends in an error envelope with no request
\* built and no attempt made.
C4_NoCallOnInvalid ==
    \A s \in Slots :
        LET r == inv[s]
        IN  (r.pc # "idle" /\ r.name \in ToolNames
                /\ (r.outcome = "validation_failed" \/ ViolatesContract(r.name, r.args)))
            => /\ r.pc = "done"
               /\ r.outcome = "validation_failed"
               /\ r.request = <<>> /\ r.attempts = 0 /\ r.last = <<>>
               /\ r.envelopes[1].isError = <<TRUE>>

C4_Witness ==
    \E s \in Slots :
        /\ inv[s].pc = "done" /\ inv[s].name = "search_concepts"
        /\ inv[s].args # <<>> /\ DOMAIN inv[s].args[1] = {"page"}
        /\ inv[s].args[1]["page"] = JsNum(0)
        /\ inv[s].request = <<>>
        /\ client = "null" /\ apiBaseUrl # ""

(***************************************************************************)
(* Properties of the error normalizer (SpecNormalize).                     *)
(***************************************************************************)

\* C5: a failure carrying status 400, 401, 403, 404 or any status >= 500
\* (500, 502, 503, 599, ...) is normalized to an Error whose message contains
\* the decimal text of the status and the table's suffix for it.
C5_StatusMapping ==
    (nout # <<>> /\ HasStatus(nin)
        /\ (StatusOf(nin) \in {400, 401, 403, 404} \/ StatusOf(nin) >= 500))
    => /\ ~nout[1].threw
       /\ nout[1].value.kind = "Error"
       /\ nout[1].value.message # <<>>
       /\ Contains(nout[1].value.message[1], ToString(StatusOf(nin)))
       /\ Contains(nout[1].value.message[1], TableSuffix(StatusOf(nin)))

C5_Witness ==
    /\ nout # <<>> /\ HasStatus(nin) /\ StatusOf(nin) = 599
    /\ Contains(nout[1].value.message[1], "Server error")
    /\ Contains(nout[1].value.message[1], "599")

\* C6 as stated: a failure carrying a status that is none of 400, 401, 403,
\* 404 and is below 500 is normalized to an error whose message is the generic
\* "API request failed with status {status}".
C6_GenericMessage ==
    (nout # <<>> /\ IsOtherStatus(nin))
    => /\ ~nout[1].threw
       /\ nout[1].value.message
            = <<(<<"API request failed with status ", ToString(StatusOf(nin))>>)>>

\* C6 amended: a failure carrying a status that is none of 400, 401, 403, 404
\* and is below 500 is returned unchanged, the same value with the message it
\* came with; no generic message is built for it.
C6_OtherStatusUnchanged ==
    (nout # <<>> /\ IsOtherStatus(nin)) => nout[1] = [threw |-> FALSE, value |-> nin]

C6_Witness ==
    /\ nout # <<>> /\ IsOtherStatus(nin) /\ StatusOf(nin) = 429
    /\ nin.message = <<(<<"Too Many Requests">>)>>
    /\ nout[1].value.message = <<(<<"Too Many Requests">>)>>

\* C7: a failure with a non-empty message and no upstream status is returned
\* by the normalizer unchanged (the same value, the same message), and a facade
\* catch block given it throws that same value.
C7_PassThrough ==
    HasOwnMessage(nin)
    => /\ (nout # <<>> => nout[1] = [threw |-> FALSE, value |-> nin])
       /\ (raised # <<>> => raised[1] = nin)

C7_Witness ==
    /\ HasOwnMessage(nin) /\ nin.response = <<>>
    /\ nout # <<>> /\ raised # <<>>
    /\ raised[1].message = <<(<<"Too Many Requests">>)>>

\* C8 as stated: for every failure value (an Error or a plain object with or
\* without message and response, a string, null, undefined) the normalizer
\* returns without throwing, and what it returns is an Error with a message.
C8_Total ==
    nout # <<>>
    => /\ ~nout[1].threw
       /\ nout[1].value.kind = "Error"
       /\ nout[1].value.message # <<>>

\* C23: when the failure a facade method catches carries response.status = 429
\* and a message of its own, the method throws that same error, with that
\* message ("Too Many Requests"); the same holds for every status that has no
\* branch of its own.
C23_RateLimitPropagated ==
    (raised # <<>> /\ IsOtherStatus(nin) /\ MessageTruthy(nin))
    => /\ raised[1] = nin
       /\ raised[1].message = nin.message
       /\ raised[1].response = nin.response

C23_Witness ==
    /\ raised # <<>> /\ nin.kind = "Error"
    /\ nin.response = <<(<<429>>)>>
    /\ raised[1].id = "e1"
    /\ raised[1].message = <<(<<"Too Many Requests">>)>>

(***************************************************************************)
(* Properties of the parameter canonicalizer (SpecParams).                 *)
(***************************************************************************)

\* C9 as stated: the canonical query has page and pageSize; each is String of
\* the supplied value when that value is not null, undefined or "", and String
\* of the default otherwise.
C9_PagingPresent ==
    pout # <<>>
    => /\ {"page", "pageSize"} \subseteq DOMAIN pout[1]
       /\ pout[1]["page"] = ExpectedPaging(pin.params, "page", pin.defaultPage)
       /\ pout[1]["pageSize"]
            = ExpectedPaging(pin.params, "pageSize", pin.defaultPageSize)

\* C9 amended: the canonical query has page and pageSize; each is String of
\* the supplied value when that value is not null or undefined and its String
\* is not empty, and String of the default otherwise (a value such as [],
\* whose String is "", gets the default).
C9_PagingPresentNonEmpty ==
    pout # <<>>
    => /\ {"page", "pageSize"} \subseteq DOMAIN pout[1]
       /\ pout[1]["page"] = ExpectedPagingNonEmpty(pin.params, "page", pin.defaultPage)
       /\ pout[1]["pageSize"]
            = ExpectedPagingNonEmpty(pin.params, "pageSize", pin.defaultPageSize)

C9_Witness ==
    /\ pout # <<>>
    /\ "page" \in DOMAIN pin.params /\ pin.params["page"] = JsNum(0)
    /\ "pageSize" \in DOMAIN pin.params /\ pin.params["pageSize"] = JsArr("")
    /\ pin.defaultPageSize = 25
    /\ pout[1]["page"] = "0" /\ pout[1]["pageSize"] = "25"

\* C10 as stated: no key of P whose value is null, undefined or "" is a key of
\* the canonical query.
C10_DroppedKeys ==
    pout # <<>> => DroppedKeys(pin.params) \cap DOMAIN pout[1] = {}

\* C10 amended: no key of P other than page and pageSize whose value is null,
\* undefined or "" is a key of the canonical query; page and pageSize given
\* such a value are keys of it, with the default.
C10_DroppedKeysExceptPaging ==
    pout # <<>>
    => /\ (DroppedKeys(pin.params) \ {"page", "pageSize"}) \cap DOMAIN pout[1] = {}
       /\ ("page" \in DroppedKeys(pin.params)
              => pout[1]["page"] = ToString(pin.defaultPage))
       /\ ("pageSize" \in DroppedKeys(pin.params)
              => pout[1]["pageSize"] = ToString(pin.defaultPageSize))

C10_Witness ==
    /\ pout # <<>>
    /\ DroppedKeys(pin.params) = {"page", "version"}
    /\ DOMAIN pout[1] = {"page", "pageSize"}


\* C11 as stated: canonicalizing the canonical query again gives the same
\* query, and for P without page and pageSize the canonical query has page and
\* pageSize equal to String of the defaults ("1" and "25").
C11_Idempotent ==
    /\ (pagain # <<>> => pagain[1] = pout[1])
    /\ (pout # <<>> /\ DOMAIN pin.params \cap {"page", "pageSize"} = {}
          => /\ {"page", "pageSize"} \subseteq DOMAIN pout[1]
             /\ pout[1]["page"] = ToString(pin.defaultPage)
             /\ pout[1]["pageSize"] = ToString(pin.defaultPageSize))

\* C11 amended: canonicalizing the canonical query again keeps every key whose
\* value is not the empty string, with the same value, and drops the keys whose
\* value is the empty string (the value a supplied [] is copied as); so it
\* gives the same query whenever no value of the canonical query is empty.
\* For P without page and pageSize the canonical query has page and pageSize
\* equal to String of the defaults ("1" and "25").
C11_IdempotentOnNonEmpty ==
    /\ (pagain # <<>>
          => /\ DOMAIN pagain[1] = {k \in DOMAIN pout[1] : pout[1][k] # ""}
             /\ \A k \in DOMAIN pagain[1] : pagain[1][k] = pout[1][k])
    /\ (pout # <<>> /\ DOMAIN pin.params \cap {"page", "pageSize"} = {}
          => /\ {"page", "pageSize"} \subseteq DOMAIN pout[1]
             /\ pout[1]["page"] = ToString(pin.defaultPage)
             /\ pout[1]["pageSize"] = ToString(pin.defaultPageSize))

C11_Witness ==
    /\ pagain # <<>>
    /\ DOMAIN pin.params = {"version"} /\ pin.params["version"] = JsStr("abc")
    /\ pin.defaultPage = 1 /\ pin.defaultPageSize = 25
    /\ pout[1] = [page |-> "1", pageSize |-> "25", version |-> "abc"]
    /\ pagain[1] = pout[1]


(***************************************************************************)
(* Properties of the request contracts and the envelopes (Spec).           *)
(***************************************************************************)

DeclaredKeys(name) ==
    LET schema == SchemaOf(tools[name].schema)
    IN  {schema[i].key : i \in 1..Len(schema)}

Restrict(a, keys) == [k \in DOMAIN a \cap keys |-> a[k]]

\* C14: arguments with fields the contract does not declare are not rejected
\* because of them, and the invocation proceeds exactly as it does for the same
\* arguments without those fields: the same validation result, the same
\* validated arguments, the same upstream request (whose query has none of the
\* undeclared fields) and, when no request is made, the same envelope.
C14_UnknownFieldsIgnored ==
    \A s \in Slots :
        LET r == inv[s]
        IN  (r.pc # "idle" /\ r.name \in ToolNames /\ r.args # <<>>
                /\ DOMAIN r.args[1] \ DeclaredKeys(r.name) # {})
            => LET declared == Restrict(r.args[1], DeclaredKeys(r.name))
                   d == Dispatch(tools, r.name, <<declared>>, client, apiBaseUrl).inv
               IN  /\ (r.outcome = "validation_failed"
                          <=> ViolatesContract(r.name, <<declared>>))
                   /\ r.validated = d.validated
                   /\ r.request = d.request
                   /\ (r.request = <<>> => r.envelopes = d.envelopes)
                   /\ (r.request # <<>> /\ r.request[1].query # <<>>
                          => DOMAIN r.request[1].query[1]
                                \cap (DOMAIN r.args[1] \ DeclaredKeys(r.name)) = {})

C14_Witness ==
    \E s \in Slots :
        /\ inv[s].pc = "pending" /\ inv[s].name = "search_datasets"
        /\ inv[s].args # <<>>
        /\ DOMAIN inv[s].args[1] = {"extra", "language", "publisherIdentifier"}
        /\ inv[s].args[1]["publisherIdentifier"] = JsStr("pub")
        /\ inv[s].request[1].query
              = <<[page |-> "1", pageSize |-> "25", publisherIdentifier |-> "pub"]>>

\* C18: when get_concept, called with a well-formed UUID, reaches the upstream
\* and the transport fails with status 404, the envelope returned has
\* isError = true and its text is "Error getting concept: " followed by a
\* message that contains "Resource not found".
C18_NotFoundEndToEnd ==
    \A s \in Slots :
        LET r == inv[s]
        IN  (r.pc = "done" /\ r.name = "get_concept" /\ r.last # <<>>
                /\ r.last[1].kind = "http" /\ r.last[1].status = 404)
            => /\ r.args[1]["id"] = JsStr(Uuid)
               /\ Len(r.envelopes) = 1
               /\ r.envelopes[1].isError = <<TRUE>>
               /\ TextOf(r)[1] = "Error getting concept: "
               /\ Contains(TextOf(r), "Resource not found")
               /\ Contains(TextOf(r), "404")

C18_Witness ==
    \E s \in Slots :
        /\ inv[s].pc = "done" /\ inv[s].name = "get_concept"
        /\ inv[s].last = <<HttpOutcome(404, FALSE)>>
        /\ inv[s].request[1].path = <<"concepts/", Uuid>>
        /\ inv[s].attempts = 1
        /\ TextOf(inv[s])
              = <<"Error getting concept: ", "API request failed with status ", "404",
                  ": ", "Resource not found">>

\* C19: the envelope of a success has no isError field and exactly one content
\* item, of type "text", whose text is the result itself when the result is a
\* string and its JSON serialization with an indent of 2 when it is a
\* structured value; an envelope that has isError has it as true and is the
\* envelope of a failure.
C19_SuccessEnvelope ==
    \A s \in Slots :
        LET r == inv[s]
        IN  r.pc = "done"
            => /\ (Succeeded(r)
                     => /\ r.envelopes[1].isError = <<>>
                        /\ Len(r.envelopes[1].content) = 1
                        /\ r.envelopes[1].content[1].type = "text"
                        /\ (r.last[1].body = "string"
                              => TextOf(r) = <<"plain text body">>)
                        /\ (r.last[1].body = "object"
                              => TextOf(r) = <<"JSON.stringify(", "{items,totalCount}",
                                               ", null, 2)">>))
               /\ (r.envelopes[1].isError # <<>>
                     => r.envelopes[1].isError = <<TRUE>> /\ ~Succeeded(r))

C19_Witness ==
    \E s \in Slots :
        /\ inv[s].pc = "done" /\ inv[s].name = "search_public_services"
        /\ inv[s].last = <<OkOutcome("string")>>
        /\ inv[s].envelopes
              = <<[content |-> <<[type |-> "text", text |-> <<"plain text body">>]>>,
                   isError |-> <<>>]>>

\* C20: a request that names no registered operation is rejected with the
\* error "Unknown tool: {name}", and with nothing else: no arguments are
\* validated, no handler is chosen, no request is built and no attempt made, no
\* envelope is returned.  The rejection leaves the registry and the client as
\* they were, and once it is answered the slot is idle again, ready for the
\* next request.
C20_UnknownTool ==
    /\ [](\A s \in Slots :
            LET r == inv[s]
            IN  /\ (r.pc # "idle" /\ r.name \notin ToolNames => r.pc = "rejected")
                /\ (r.pc = "rejected"
                      => /\ r.name \notin DOMAIN tools
                         /\ DOMAIN tools = ToolNames
                         /\ r.outcome = "unknown_tool"
                         /\ r.thrown = <<NewError(<<"Unknown tool: ", r.name>>)>>
                         /\ r.validated = <<>> /\ r.handler = ""
                         /\ r.request = <<>> /\ r.attempts = 0 /\ r.last = <<>>
                         /\ r.surfaced = <<>> /\ r.envelopes = <<>>))
    /\ [][\A s \in Slots :
            /\ (inv'[s].pc = "rejected" /\ inv[s].pc # "rejected"
                  => tools' = tools /\ client' = client /\ boot' = boot)
            /\ (inv[s].pc = "rejected" /\ inv'[s] # inv[s]
                  => inv'[s] = Idle /\ tools' = tools /\ client' = client
                     /\ boot' = boot)]_vars

C20_Witness ==
    \E s \in Slots :
        /\ inv[s].pc = "rejected" /\ inv[s].name = "export_concept"
        /\ inv[s].args # <<>> /\ "id" \in DOMAIN inv[s].args[1]
        /\ client = "instance"
        /\ inv[s].thrown[1].message = <<(<<"Unknown tool: ", "export_concept">>)>>

\* C21 as stated: without a base URL the construction of the client throws and
\* no client exists afterwards, and "Base URL is required" is never the failure
\* reported for an operation call.
C21_NeverPerCall ==
    /\ (apiBaseUrl = "" => client = "null")
    /\ \A s \in Slots :
          inv[s].envelopes # <<>> => ~Contains(TextOf(inv[s]), "Base URL is required")

\* C21 amended: without a base URL the construction of the client throws "Base
\* URL is required" and no client exists afterwards.  The shared client is
\* constructed on the first operation call, so where the configuration lets a
\* missing base URL through (the test context) the error is reported as the
\* failure of every call that passes validation: an error envelope whose text
\* is the operation's error prefix followed by "Base URL is required", with no
\* transport call made.  With a base URL no call ever reports it.
C21_ConstructionErrorPerCall ==
    /\ (apiBaseUrl = "" => client = "null")
    /\ \A s \in Slots :
          LET r == inv[s]
          IN  /\ (apiBaseUrl = "" /\ r.pc # "idle" /\ r.name \in ToolNames
                     /\ ~ViolatesContract(r.name, r.args)
                   => /\ r.pc = "done" /\ r.outcome = "handler_failed"
                      /\ r.request = <<>> /\ r.attempts = 0
                      /\ r.envelopes[1].isError = <<TRUE>>
                      /\ Len(TextOf(r)) = 2
                      /\ TextOf(r)[2] = "Base URL is required")
              /\ (apiBaseUrl # "" /\ r.envelopes # <<>>
                   => ~Contains(TextOf(r), "Base URL is required"))

C21_Witness ==
    \E s \in Slots :
        /\ apiBaseUrl = "" /\ client = "null"
        /\ inv[s].pc = "done" /\ inv[s].name = "search_concepts"
        /\ inv[s].request = <<>>
        /\ TextOf(inv[s]) = <<"Error searching concepts: ", "Base URL is required">>

(***************************************************************************)
(* Properties of two requests in progress at once (SpecPair).              *)
(***************************************************************************)

\* what the invocation record r is when it results from its own name, its own
\* arguments and its own upstream answers alone
OwnCourse(r) ==
    LET d == Dispatch(tools, r.name, r.args, client, apiBaseUrl).inv
    IN  CASE r.pc = "idle" -> Idle
          [] r.pc = "pending" -> [d EXCEPT !.attempts = r.attempts, !.last = r.last]
          [] r.request = <<>> -> d
          [] OTHER -> Settle([d EXCEPT !.attempts = r.attempts], r.last[1])

\* C22: with two invocations in progress at once, every step is a step of one
\* of them and leaves the other as it is; each has its own request and makes
\* at most 3 attempts of it (two pending invocations with equal requests stay
\* two transport calls, each answered on its own); and each ends with exactly
\* one envelope, the one its own arguments and its own upstream answers give.
C22_Independent ==
    /\ [](\A s \in DOMAIN inv :
            /\ inv[s] = OwnCourse(inv[s])
            /\ inv[s].attempts <= 3
            /\ (inv[s].pc = "pending" => Len(inv[s].request) = 1 /\ inv[s].attempts >= 1)
            /\ (inv[s].pc = "done" => Len(inv[s].envelopes) = 1))
    /\ [][\A s, t \in DOMAIN inv :
            (s # t /\ inv'[s] # inv[s]) => inv'[t] = inv[t]]_vars

C22_Witness ==
    /\ DOMAIN inv = {"r1", "r2"}
    /\ inv["r1"].pc = "pending" /\ inv["r2"].pc = "done"
    /\ inv["r1"].name = inv["r2"].name /\ inv["r1"].args = inv["r2"].args
    /\ inv["r1"].request = inv["r2"].request
    /\ inv["r1"].attempts = 3 /\ inv["r2"].attempts = 1
    /\ inv["r2"].last = <<OkOutcome("object")>>

\* C24: nothing above the transport client retries.  A dispatch issues at most
\* one facade request, which settles at most once after at most three HTTP
\* attempts; a validation failure issues none; and once the dispatch has
\* ended, in failure or success, its record only leaves with the response: no
\* second request, attempt or envelope follows.
C24_NoRetryAbove ==
    /\ [](\A s \in DOMAIN inv :
            /\ Len(inv[s].request) <= 1
            /\ Len(inv[s].surfaced) <= 1
            /\ inv[s].attempts <= RetryLimit + 1
            /\ Len(inv[s].envelopes) + Len(inv[s].thrown) <= 1
            /\ inv[s].outcome \in {"validation_failed", "unknown_tool"}
               => (inv[s].request = <<>> /\ inv[s].attempts = 0)
            /\ inv[s].pc \in {"done", "rejected"} /\ inv[s].request # <<>>
               => Len(inv[s].surfaced) = 1)
    /\ [][\A s \in DOMAIN inv :
            /\ inv[s].pc \in {"done", "rejected"} => inv'[s] \in {inv[s], Idle}
            /\ (inv[s].request # <<>> /\ inv'[s] # Idle)
               => (inv'[s].request = inv[s].request
                   /\ inv'[s].attempts >= inv[s].attempts)]_vars

C24_Witness ==
    \E s \in DOMAIN inv :
        /\ inv[s].pc = "done" /\ inv[s].outcome = "handler_failed"
        /\ inv[s].handler = "searchDataServices"
        /\ Len(inv[s].request) = 1 /\ inv[s].attempts = RetryLimit + 1
        /\ Len(inv[s].surfaced) = 1 /\ inv[s].surfaced[1].threw

\* C25: the registry is filled by the registration functions at startup and
\* only read afterwards: it changes only in a registration step, once the
\* last registration has run its keys are exactly the nine tool names, and no
\* ListTools or CallTool request adds, removes or replaces an entry; a
\* ListTools reply names exactly the nine tools.
C25_RegistryReadOnly ==
    /\ [](boot = Len(Registrations)
           => /\ DOMAIN tools = ToolNames
              /\ Cardinality(DOMAIN tools) = 9
              /\ \A k \in DOMAIN tools : tools[k].name = k)
    /\ [](listed # <<>> => {t.name : t \in listed[1]} = ToolNames)
    /\ [](\A s \in DOMAIN inv : inv[s].pc # "idle" => boot = Len(Registrations))
    /\ [][tools' # tools => (boot < Len(Registrations) /\ boot' = boot + 1)]_vars
    /\ [][(listed' # listed \/ inv' # inv) => tools' = tools]_vars

C25_Witness ==
    /\ boot = Len(Registrations)
    /\ listed # <<>> /\ Cardinality(listed[1]) = 9
    /\ \E s \in DOMAIN inv : inv[s].pc = "done" /\ inv[s].outcome = "success"
    /\ DOMAIN tools = ToolNames

\* C27: the catalog tools are registered first and the concept tools second, so
\* once startup is over get_code_list_entries is the concept handler.  A
\* dispatch of it with valid arguments and a client sends one request, to
\* concepts/{id} with the query {includeCodeListEntries: "true"}, never to
\* concepts/{id}/codelistentries; the request is a function of the id alone,
\* so the validated page and pageSize have no effect on it.
C27_LastRegistrationWins ==
    /\ boot = Len(Registrations)
       => tools["get_code_list_entries"] =
            Tool("get_code_list_entries", "getCodeListEntriesSchema", "getCodeListEntries")
    /\ \A s \in DOMAIN inv :
          (inv[s].name = "get_code_list_entries" /\ inv[s].validated # <<>>)
          => /\ inv[s].handler = "getCodeListEntries"
             /\ {"page", "pageSize"} \subseteq DOMAIN inv[s].validated[1]
             /\ apiBaseUrl # "" => inv[s].request # <<>>
             /\ inv[s].request # <<>>
                => /\ inv[s].request[1].method = "get"
                   /\ inv[s].request[1].path = <<"concepts/", inv[s].validated[1].id.s>>
                   /\ inv[s].request[1].query = <<[includeCodeListEntries |-> "true"]>>
                   /\ ~Contains(inv[s].request[1].path, "/codelistentries")

C27_Witness ==
    \E s \in DOMAIN inv :
        /\ inv[s].name = "get_code_list_entries"
        /\ inv[s].validated # <<>>
        /\ inv[s].validated[1].page = JsNum(2)
        /\ inv[s].validated[1].pageSize = JsNum(50)
        /\ inv[s].pc = "pending"
        /\ inv[s].request[1].path = <<"concepts/", Uuid>>

\* C28: the shared client is a lazy singleton.  The cache holds null or the one
\* instance constructed from null; once it holds the instance no later access
\* replaces it, and a call that passes validation then proceeds to its
\* request.  The cache leaves null only in a call that passes validation with
\* a base URL configured.  When the construction throws, the cache stays null,
\* the call fails, and the next call that passes validation attempts the
\* construction again: it fails the same way while no base URL is configured.
C28_LazySingleton ==
    /\ [](client \in {"null", "instance"})
    /\ [](\A s \in DOMAIN inv : inv[s].request # <<>> => client = "instance")
    /\ [][client # "null" => client' = client]_vars
    /\ [][client' # client
             => /\ apiBaseUrl # ""
                /\ \E s \in DOMAIN inv :
                      /\ inv[s].pc = "idle" /\ inv'[s].pc = "pending"
                      /\ inv'[s].validated # <<>>]_vars
    /\ [][\A s \in DOMAIN inv :
             (inv[s].pc = "idle" /\ inv'[s].validated # <<>>)
             => IF apiBaseUrl = ""
                THEN /\ client' = "null"
                     /\ inv'[s].outcome = "handler_failed"
                     /\ inv'[s].request = <<>>
                     /\ Contains(TextOf(inv'[s]), "Base URL is required")
                ELSE /\ client' = "instance"
                     /\ inv'[s].pc = "pending"]_vars

\* a validated call in flight, on its second attempt, against the cached instance
C28_Witness ==
    \E s \in DOMAIN inv :
        /\ client = "instance" /\ listed # <<>>
        /\ inv[s].pc = "pending" /\ inv[s].name = "get_public_service"
        /\ inv[s].attempts = 2

SearchTools ==
    {"search_concepts", "search_datasets", "search_data_services", "search_public_services"}

\* the query of the request a search invocation has sent
QueryOf(r) == r.request[1].query[1]

\* the page and pageSize of a sent search query are the texts of validated
\* integers, page >= 1 and pageSize in 1..100, and its other keys are declared
\* filters with non-empty values
PagingAndFilters(r) ==
    LET q == QueryOf(r)
        v == r.validated[1]
    IN  /\ {"page", "pageSize"} \subseteq DOMAIN q
        /\ v.page.t = "number" /\ v.page.s = "" /\ v.page.n >= 1
        /\ q.page = ToString(v.page.n) /\ q.page # "0"
        /\ v.pageSize.t = "number" /\ v.pageSize.s = ""
        /\ v.pageSize.n \in 1..100
        /\ q.pageSize = ToString(v.pageSize.n)
        /\ \A k \in DOMAIN q \ {"page", "pageSize"} :
              /\ k \in DeclaredKeys(r.name)
              /\ q[k] # ""

\* C29 as stated: every search request that reaches the network has page the
\* decimal string of an integer >= 1, pageSize that of an integer in 1..100,
\* and otherwise only declared filters with non-empty string values; none is
\* sent with page "0", a pageSize above "100" or a value "undefined" or "null".
C29_QueryContract ==
    \A s \in DOMAIN inv :
        (inv[s].name \in SearchTools /\ inv[s].request # <<>>)
        => /\ PagingAndFilters(inv[s])
           /\ \A k \in DOMAIN QueryOf(inv[s]) :
                 QueryOf(inv[s])[k] \notin {"undefined", "null"}

\* C29 amended: every search request that reaches the network has page the
\* text of the validated page, an integer >= 1, pageSize the text of the
\* validated pageSize, an integer in 1..100, and otherwise exactly the declared
\* filters the caller gave a non-empty string for, each with the caller's
\* string as its value; none is sent with page "0" or a pageSize above "100".
\* No value is the text of an undefined or null argument, but a filter the
\* caller set to the string "undefined" or "null" is sent with that value.
C29_QueryContractOfValidated ==
    \A s \in DOMAIN inv :
        (inv[s].name \in SearchTools /\ inv[s].request # <<>>)
        => LET q == QueryOf(inv[s])
               v == inv[s].validated[1]
           IN  /\ PagingAndFilters(inv[s])
               /\ DOMAIN q \ {"page", "pageSize"}
                    = {k \in DOMAIN v \ {"page", "pageSize"} :
                          v[k].t = "string" /\ v[k].s # ""}
               /\ \A k \in DOMAIN q \ {"page", "pageSize"} :
                     /\ inv[s].args # <<>> /\ k \in DOMAIN inv[s].args[1]
                     /\ inv[s].args[1][k] = v[k]
                     /\ q[k] = v[k].s

C29_Witness ==
    \E s \in DOMAIN inv :
        /\ inv[s].name = "search_public_services" /\ inv[s].pc = "pending"
        /\ inv[s].args = <<[page |-> JsNum(2), publisherIdentifier |-> JsStr("null")]>>
        /\ QueryOf(inv[s]) =
             [page |-> "2", pageSize |-> "25", publisherIdentifier |-> "null"]

\* C30: the arguments are validated by the dispatcher and again by the
\* handler, against the same contract.  The handler's validation of the
\* validated arguments succeeds and yields those same arguments, so a
\* validation failure is always the dispatcher's (no handler was entered) and
\* the request a handler sends is the one built from the validated arguments.
C30_ValidationIdempotent ==
    \A s \in DOMAIN inv :
        LET r == inv[s]
            h == HandlerOf(r.handler)
        IN  /\ r.outcome = "validation_failed" => (r.handler = "" /\ r.validated = <<>>)
            /\ r.validated # <<>>
               => /\ r.handler = tools[r.name].handler
                  /\ h.schema = <<tools[r.name].schema>>
                  /\ SchemaParse(SchemaOf(tools[r.name].schema), r.args)
                       = Returned(r.validated[1])
                  /\ HandlerParse(h, r.validated[1]) = Returned(r.validated[1])
                  /\ r.request # <<>>
                     => r.request[1] = FacadeRequest(HandlerCall(h, r.validated[1]))

\* the handler was entered with validated arguments that differ from the ones
\* received (defaults filled in, an undeclared field dropped)
C30_Witness ==
    \E s \in DOMAIN inv :
        /\ inv[s].name = "search_datasets" /\ inv[s].pc = "pending"
        /\ inv[s].args = <<[extra |-> JsStr("zzz"), pageSize |-> JsNum(50)]>>
        /\ inv[s].validated = <<[page |-> JsNum(1), pageSize |-> JsNum(50)]>>

(***************************************************************************)
(* Properties of the request validator (SpecValidate).                     *)
(***************************************************************************)
PagingSchemas ==
    {"searchConceptsSchema", "getCodeListEntriesSchema",
     "schemas.getCodeListEntriesSchema", "searchDatasetsSchema",
     "searchDataServicesSchema", "searchPublicServicesSchema"}

\* the argument is absent, or an integer within lo..hi
AbsentOrInteger(a, k, lo, hi) == ~BadInteger(a, k, lo, hi)

\* the arguments other than page and pageSize satisfy the schema
OtherFieldsValid(schemaName, a) ==
    schemaName \in {"getCodeListEntriesSchema", "schemas.getCodeListEntriesSchema"}
        => ("id" \in DOMAIN a /\ a["id"] = JsStr(Uuid))

Absent(a, k) == k \notin DOMAIN a \/ a[k] = JsUndefined

C15_GetConceptShape ==
    (fout # <<>> /\ fin.method = "getConcept")
    => /\ Len(fout) = 1
       /\ fout[1].method = "get"
       /\ fout[1].path = <<"concepts/", fin.id.s>>
       /\ (fin.flag => fout[1].query = <<[includeCodeListEntries |-> "true"]>>)
       /\ (~fin.flag => fout[1].query = <<>>)

C15_Witness ==
    /\ fres # <<>> /\ fin.method = "getConcept" /\ fin.flag
    /\ fout = <<[method |-> "get", path |-> <<"concepts/", Uuid>>,
                 query |-> <<[includeCodeListEntries |-> "true"]>>]>>

\* C16 as stated: getDataset(id, language) issues exactly one GET to
\* datasets/{id}, with no query object when language is absent and with the
\* query exactly {language: value} when language is given.
C16_GetDatasetShape ==
    (fout # <<>> /\ fin.method = "getDataset")
    => /\ Len(fout) = 1
       /\ fout[1].method = "get"
       /\ fout[1].path = <<"datasets/", fin.id.s>>
       /\ (fin.params["language"] = JsUndefined => fout[1].query = <<>>)
       /\ (fin.params["language"] # JsUndefined
             => fout[1].query = <<[language |-> fin.params["language"].s]>>)

\* C16 amended: getDataset(id, language) issues exactly one GET to
\* datasets/{id}, with no query object when language is absent or the empty
\* string, and with the query exactly {language: value}, without page or
\* pageSize, when language is a non-empty string.
C16_GetDatasetShapeNonEmpty ==
    (fout # <<>> /\ fin.method = "getDataset")
    => /\ Len(fout) = 1
       /\ fout[1].method = "get"
       /\ fout[1].path = <<"datasets/", fin.id.s>>
       /\ (fin.params["language"] \in {JsUndefined, JsStr("")} => fout[1].query = <<>>)
       /\ (fin.params["language"] \notin {JsUndefined, JsStr("")}
             => fout[1].query = <<[language |-> fin.params["language"].s]>>)

C16_Witness ==
    /\ fres # <<>> /\ fin.method = "getDataset" /\ fin.id = JsStr("123")
    /\ fout = <<[method |-> "get", path |-> <<"datasets/", "123">>,
                 query |-> <<[language |-> "fr"]>>]>>

\* the transport call succeeded and its body could be read
BodyRead(method, outcome) ==
    outcome.kind = "ok" /\ (method = "exportDatasetStructure" \/ outcome.body # "invalid")

\* the failure the method's catch block receives
FailureOf(outcome) ==
    IF outcome.kind = "ok" THEN ResponseJson(outcome).value ELSE KyError(outcome)

\* C17: a facade method returns the body of a successful transport call, and
\* in every other case (the transport call failed, or the body could not be
\* decoded) it throws, and what it throws is exactly the value the normalizer
\* returns for the failure; it returns nothing when there was a failure.
C17_ReturnsOrRaises ==
    fres # <<>>
    => LET o == fres[1].outcome
           x == fres[1].result
       IN  /\ ~x.threw <=> BodyRead(fin.method, o)
           /\ (~x.threw /\ fin.method # "exportDatasetStructure"
                 => x.value = (IF o.body = "object" THEN JsonObject ELSE JsonText))
           /\ (~x.threw /\ fin.method = "exportDatasetStructure"
                 => x.value = JsStr(o.body))
           /\ (x.threw
                 => /\ ~HandleError(FailureOf(o)).threw
                    /\ x.value = HandleError(FailureOf(o)).value
                    /\ x.value.kind = "Error")

C17_Witness ==
    /\ fres # <<>> /\ fin.method = "searchConcepts"
    /\ fres[1].outcome = HttpOutcome(500, FALSE)
    /\ fres[1].result.threw
    /\ Contains(fres[1].result.value.message[1], "Server error")

(***************************************************************************)
(* Properties of the pagination-metadata formatter (SpecPagination).       *)
(***************************************************************************)
\* C26: formatPaginationInfo counts pages from 0.  For page >= 0, pageSize >= 1
\* and totalItems >= 0 its totalPages is the ceiling of totalItems / pageSize
\* (the least count of pages of pageSize items that holds totalItems),
\* hasNextPage is true iff page < totalPages - 1, hasPreviousPage is true iff
\* page > 0, and page, pageSize and totalItems come back unchanged.
C26_PaginationInfo ==
    (gout # <<>> /\ gin.page >= 0 /\ gin.pageSize >= 1 /\ gin.totalItems >= 0)
    => LET r == gout[1]
           n == r.totalPages.n
       IN  /\ r.totalPages.kind = "finite"
           /\ n * gin.pageSize >= gin.totalItems
           /\ (n - 1) * gin.pageSize < gin.totalItems
           /\ r.hasNextPage = (gin.page < n - 1)
           /\ r.hasPreviousPage = (gin.page > 0)
           /\ r.page = gin.page
           /\ r.pageSize = gin.pageSize
           /\ r.totalItems = gin.totalItems

C26_Witness ==
    /\ gout # <<>>
    /\ gin = [page |-> 2, pageSize |-> 3, totalItems |-> 7]
    /\ gout[1].totalPages = Finite(3)
    /\ ~gout[1].hasNextPage /\ gout[1].hasPreviousPage

====
